---- MODULE Spec2Model ----
(***************************************************************************)
(* A model of the liked-songs sorter (processor.playlistSorter): its Run,  *)
(* the pagers, the year classifier, the playlist locator and the batch     *)
(* loops, against a remote library that keeps the user's liked tracks and  *)
(* playlists.  Strings of the program are TLA+ strings; a timestamp is a   *)
(* sequence of one-character strings so that it can be parsed.             *)
(***************************************************************************)
EXTENDS Integers, Sequences, FiniteSets, TLC

\* ------------------------------------------------------------------------
\* Bounds of the model
\* ------------------------------------------------------------------------

\* the largest liked library / playlist holds MaxBatches full batches plus one
MaxBatches == 2
\* the user's playlist collection is preceded by up to MaxFillerPages full
\* pages of unrelated playlists
MaxFillerPages == 1
\* how many times Run is invoked in a row
MaxRuns == 2
\* how many remote calls (other than the image upload) may fail in a behaviour
MaxFails == 1
\* how many image steps (generation or upload) may fail in a behaviour
MaxImgFails == 1
\* how many remote calls a run is followed for when its termination is
\* checked: more than any run over the inputs makes
MaxCalls == 40
\* how many callback requests reach the server of GetClient
MaxCallbacks == 2

\* ------------------------------------------------------------------------
\* Program constants
\* ------------------------------------------------------------------------

LikedLimit == 50
PlaylistsLimit == 50
ItemsLimit == 100
RemoveBatchSize == 100
AddBatchSize == 100

EmptyID == ""
Me == "me"
Other == "bob"

\* ------------------------------------------------------------------------
\* time.Parse(time.RFC3339, s) and Time.Year()
\* ------------------------------------------------------------------------

Digits == {"0", "1", "2", "3", "4", "5", "6", "7", "8", "9"}

DigitVal(c) ==
    CASE c = "0" -> 0 [] c = "1" -> 1 [] c = "2" -> 2 [] c = "3" -> 3
      [] c = "4" -> 4 [] c = "5" -> 5 [] c = "6" -> 6 [] c = "7" -> 7
      [] c = "8" -> 8 [] c = "9" -> 9

IsDigitAt(v, p) == p >= 1 /\ p <= Len(v) /\ v[p] \in Digits

IsLitAt(v, p, c) == p >= 1 /\ p <= Len(v) /\ v[p] = c

Num2(v, p) == 10 * DigitVal(v[p]) + DigitVal(v[p + 1])

Num4(v, p) == 100 * Num2(v, p) + Num2(v, p + 2)

IsLeap(y) == y % 4 = 0 /\ (y % 100 # 0 \/ y % 400 = 0)

DaysIn(m, y) ==
    IF m = 2 THEN (IF IsLeap(y) THEN 29 ELSE 28)
    ELSE IF m \in {4, 6, 9, 11} THEN 30 ELSE 31

\* number of consecutive digits of v from position p on
RECURSIVE DigitRun(_, _)
DigitRun(v, p) == IF IsDigitAt(v, p) THEN 1 + DigitRun(v, p + 1) ELSE 0

\* the layout 2006-01-02T15:04:05Z07:00: a four-digit year, two-digit month
\* and day, an hour of one or two digits, two-digit minute and second, an
\* optional fraction after the seconds, then Z or a signed hh:mm offset, and
\* nothing after it.  The result is [ok, year]; the year is the one written,
\* since the parsed time keeps the offset it was written with.
ParseRFC3339(v) ==
    LET bad == [ok |-> FALSE, year |-> 0]
        dateOk == /\ IsDigitAt(v, 1) /\ IsDigitAt(v, 2)
                  /\ IsDigitAt(v, 3) /\ IsDigitAt(v, 4)
                  /\ IsLitAt(v, 5, "-")
                  /\ IsDigitAt(v, 6) /\ IsDigitAt(v, 7)
                  /\ IsLitAt(v, 8, "-")
                  /\ IsDigitAt(v, 9) /\ IsDigitAt(v, 10)
                  /\ IsLitAt(v, 11, "T")
                  /\ IsDigitAt(v, 12)
    IN  IF ~dateOk THEN bad
        ELSE
        LET year == Num4(v, 1)
            month == Num2(v, 6)
            day == Num2(v, 9)
            hlen == IF IsDigitAt(v, 13) THEN 2 ELSE 1
            hour == IF hlen = 2 THEN Num2(v, 12) ELSE DigitVal(v[12])
            q == 12 + hlen
            clockOk == /\ IsLitAt(v, q, ":")
                       /\ IsDigitAt(v, q + 1) /\ IsDigitAt(v, q + 2)
                       /\ IsLitAt(v, q + 3, ":")
                       /\ IsDigitAt(v, q + 4) /\ IsDigitAt(v, q + 5)
        IN  IF ~clockOk THEN bad
            ELSE
            LET min == Num2(v, q + 1)
                sec == Num2(v, q + 4)
                frac == IF /\ (IsLitAt(v, q + 6, ".") \/ IsLitAt(v, q + 6, ","))
                           /\ IsDigitAt(v, q + 7)
                        THEN 1 + DigitRun(v, q + 7) ELSE 0
                z == q + 6 + frac
                zoneOk ==
                    \/ IsLitAt(v, z, "Z") /\ Len(v) = z
                    \/ /\ (IsLitAt(v, z, "+") \/ IsLitAt(v, z, "-"))
                       /\ IsDigitAt(v, z + 1) /\ IsDigitAt(v, z + 2)
                       /\ IsLitAt(v, z + 3, ":")
                       /\ IsDigitAt(v, z + 4) /\ IsDigitAt(v, z + 5)
                       /\ Len(v) = z + 5
                       /\ Num2(v, z + 1) <= 24
                       /\ Num2(v, z + 4) <= 60
                rangeOk == /\ month >= 1 /\ month <= 12
                           /\ hour < 24 /\ min < 60 /\ sec < 60
                           /\ day >= 1 /\ day <= DaysIn(month, year)
            IN  IF zoneOk /\ rangeOk THEN [ok |-> TRUE, year |-> year] ELSE bad

\* ------------------------------------------------------------------------
\* groupTracksByYear, the sorted years, the playlist name, the batches
\* ------------------------------------------------------------------------

\* a variant of GroupStep that starts the bucket anew at every track
GroupStepOverwrite(grouped, item) ==
    LET t == ParseRFC3339(item.AddedAt)
    IN  IF ~t.ok THEN grouped
        ELSE IF t.year \in DOMAIN grouped
             THEN [grouped EXCEPT ![t.year] = <<item.ID>>]
             ELSE grouped @@ (t.year :> <<item.ID>>)

\* a variant of GroupStep that ignores the error of the parse and files the
\* track under the year of the zero time
GroupStepIgnoreError(grouped, item) ==
    LET t == ParseRFC3339(item.AddedAt)
        year == IF t.ok THEN t.year ELSE 1
    IN  IF year \in DOMAIN grouped
        THEN [grouped EXCEPT ![year] = Append(@, item.ID)]
        ELSE grouped @@ (year :> <<item.ID>>)

\* one iteration of the loop of groupTracksByYear
GroupStep(grouped, item) ==
    LET t == ParseRFC3339(item.AddedAt)
    IN  IF ~t.ok THEN grouped
        ELSE IF t.year \in DOMAIN grouped
             THEN [grouped EXCEPT ![t.year] = Append(@, item.ID)]
             ELSE grouped @@ (t.year :> <<item.ID>>)

\* the loop of groupTracksByYear over tracks[lo..hi], in order, starting from
\* the map grouped (the range is halved and the left half's map is looked at
\* before the right half starts, so that the evaluation stays shallow)
RECURSIVE GroupFrom(_, _, _, _)
GroupFrom(tracks, lo, hi, grouped) ==
    IF lo > hi THEN grouped
    ELSE IF lo = hi THEN GroupStep(grouped, tracks[lo])
    ELSE LET mid == (lo + hi) \div 2
             left == GroupFrom(tracks, lo, mid, grouped)
         IN  IF DOMAIN left = {} \/ hi > mid
             THEN GroupFrom(tracks, mid + 1, hi, left)
             ELSE left

\* the empty map
NoBuckets == [y \in {} |-> <<>>]

groupTracksByYear(tracks) == GroupFrom(tracks, 1, Len(tracks), NoBuckets)

SetMin(S) == CHOOSE m \in S : \A x \in S : m <= x

SetMax(S) == CHOOSE m \in S : \A x \in S : m >= x

\* a variant of SortInts that sorts in descending order
RECURSIVE SortIntsDescending(_)
SortIntsDescending(S) ==
    IF S = {} THEN <<>>
    ELSE <<SetMax(S)>> \o SortIntsDescending(S \ {SetMax(S)})

\* sort.Ints over the keys of the map
RECURSIVE SortInts(_)
SortInts(S) ==
    IF S = {} THEN <<>>
    ELSE <<SetMin(S)>> \o SortInts(S \ {SetMin(S)})

\* fmt.Sprintf("Liked Songs (%d)", year)
PlaylistName(year) == "Liked Songs (" \o ToString(year) \o ")"

\* a variant of BatchEnd whose batches end one element early
BatchEndOffByOne(i, n, batchSize) ==
    IF i + batchSize - 1 > n THEN n ELSE i + batchSize - 1

\* end index of the batch that starts at index i (0-based, as in the code)
BatchEnd(i, n, batchSize) ==
    IF i + batchSize > n THEN n ELSE i + batchSize

\* trackIDs[i:end]
Slice(s, i, end) == SubSeq(s, i + 1, end)

\* ------------------------------------------------------------------------
\* The remote library (the SpotifyClient the sorter is given)
\* ------------------------------------------------------------------------

Min(a, b) == IF a < b THEN a ELSE b

Range(s) == {s[k] : k \in 1..Len(s)}

\* a page of a remote collection: at most limit items from offset on
PageOf(coll, offset, limit) == SubSeq(coll, offset + 1, Min(offset + limit, Len(coll)))

\* the totals a page may report: the right one, a stale small one, a large one
Totals(coll) == {0, Len(coll), Len(coll) + 7}

\* CurrentUser: the identifier of the user the client is authorized for
CurrentUserID == Me

\* index of the playlist with identifier pid in the remote collection
IndexOfPlaylist(pls, pid) == CHOOSE k \in 1..Len(pls) : pls[k].ID = pid

\* GetPlaylistTracks: the items of playlist pid
ItemsOf(pls, pid) == pls[IndexOfPlaylist(pls, pid)].Items

\* RemoveTracksFromPlaylist: every occurrence of each given identifier goes
RemoteRemove(pls, pid, ids) ==
    [pls EXCEPT ![IndexOfPlaylist(pls, pid)].Items =
        SelectSeq(@, LAMBDA x : x \notin Range(ids))]

\* AddTracksToPlaylist: the identifiers are appended in order
RemoteAdd(pls, pid, ids) ==
    [pls EXCEPT ![IndexOfPlaylist(pls, pid)].Items = @ \o ids]

\* SetPlaylistImage
RemoteSetImage(pls, pid) ==
    [pls EXCEPT ![IndexOfPlaylist(pls, pid)].Image = TRUE]

NewPlaylistID(pls) == "p" \o ToString(Len(pls) + 1)

\* CreatePlaylistForUser: a new empty playlist owned by userID
RemoteCreate(pls, userID, name) ==
    Append(pls, [ID |-> NewPlaylistID(pls), Name |-> name, Owner |-> userID,
                 Items |-> <<>>, Image |-> FALSE])

\* ------------------------------------------------------------------------
\* Decisions of the sorter's loops
\* ------------------------------------------------------------------------

\* a variant of LikedPageDone that never finds the end
LikedPageDoneNever(page, total, offset) == FALSE

\* a variant of LikedPageDone that also stops at the reported total
LikedPageDoneByTotal(page, total, offset) ==
    Len(page) = 0 \/ offset + Len(page) >= total

\* fetchAllLikedTracks: if len(page.Tracks) == 0 { break }
LikedPageDone(page, total, offset) == Len(page) = 0

\* a variant of ItemsPageDone that also stops at the reported total
ItemsPageDoneByTotal(page, total, offset) ==
    Len(page) = 0 \/ offset + Len(page) >= total

\* fetchAllPlaylistTracks: if len(page.Tracks) == 0 { break }
ItemsPageDone(page, total, offset) == Len(page) = 0

\* a variant of PlaylistsPageDone that also stops at the reported total
PlaylistsPageDoneByTotal(page, total, offset) ==
    Len(page) = 0 \/ offset + Len(page) >= total

\* findExistingPlaylist: if len(page.Playlists) == 0 { break }
PlaylistsPageDone(page, total, offset) == Len(page) = 0

\* a variant of KeepItem that keeps no identifier
KeepItemNone(id) == FALSE

\* a variant of KeepItem that keeps every identifier
KeepItemAny(id) == TRUE

\* fetchAllPlaylistTracks: if item.Track.ID != ""
KeepItem(id) == id # EmptyID

ValidIDs(page) == SelectSeq(page, KeepItem)

\* a variant of Match that compares the name alone
MatchNameOnly(pl, name, userID) == pl.Name = name

\* a variant of Match that compares the owner alone
MatchOwnerOnly(pl, name, userID) == pl.Owner = userID

\* findExistingPlaylist: pl.Name == name && pl.Owner.ID == userID
Match(pl, name, userID) == pl.Name = name /\ pl.Owner = userID

\* the first playlist of the page that matches, 0 when none does
FirstMatch(page, name, userID) ==
    LET hits == {k \in 1..Len(page) : Match(page[k], name, userID)}
    IN  IF hits = {} THEN 0 ELSE SetMin(hits)

\* a variant of AfterLocate that creates a playlist whatever was found
AfterLocateAlwaysCreate(found) == "create"

\* Run: if existingPlaylist != nil { clear } else { create }
AfterLocate(found) == IF found THEN "clearFetch" ELSE "create"

\* a *spotify.SimplePlaylist that is nil
NoPlaylist == [ID |-> EmptyID, Name |-> "", Owner |-> ""]

Simple(pl) == [ID |-> pl.ID, Name |-> pl.Name, Owner |-> pl.Owner]

\* ------------------------------------------------------------------------
\* State
\* ------------------------------------------------------------------------

VARIABLES
    liked,          \* remote: the liked tracks, in the order they are listed
    playlists,      \* remote: the playlists listed for the user
    pc,             \* where Run is
    result,         \* what Run returned: "none" (running), "nil" or "err"
    allTracks,      \* fetchAllLikedTracks: allTracks
    offset,         \* the offset of the pager in progress
    tracksByYear,   \* Run: tracksByYear
    years,          \* Run: years, sorted
    yi,             \* Run: index into years of the year in progress (1-based)
    existingPlaylist, \* Run: existingPlaylist (NoPlaylist for nil)
    playlistID,     \* Run: playlistID
    tracksToRemove, \* Run: tracksToRemove
    bi,             \* the batch loops' i
    calls,          \* the remote calls of this run, in order
    runs,           \* how many runs were started
    fails,          \* how many remote calls failed
    imgFails,       \* how many image steps failed
    pre,            \* the remote playlists when this run started
    artists,        \* artistTrackRemover: artists, the set of blocked names
    filterTotal,    \* artistTrackRemover.Run: total (-1 until a page came)
    cancelled,      \* whether the context of Run / GetClient was cancelled
    handlers,       \* GetClient: where each callback handler goroutine is
    server,         \* GetClient: where the ListenAndServe goroutine is
    errChan         \* GetClient: the errors buffered in errChan

remote == <<liked, playlists>>
locals == <<allTracks, offset, tracksByYear, years, yi, existingPlaylist,
            playlistID, tracksToRemove, bi>>
vars == <<liked, playlists, pc, result, allTracks, offset, tracksByYear, years,
          yi, existingPlaylist, playlistID, tracksToRemove, bi, calls, runs,
          fails, imgFails, pre, artists, filterTotal, cancelled, handlers,
          server, errChan>>
\* what only Authenticator.GetClient writes
authVars == <<handlers, server, errChan>>
\* what the playlist sorter never writes
filterVars == <<artists, filterTotal, cancelled, authVars>>

\* ------------------------------------------------------------------------
\* Inputs: liked libraries and playlist collections
\* ------------------------------------------------------------------------

Stamp2023a == <<"2","0","2","3","-","0","1","-","0","1","T","0","0",":","0","0",":","0","0","Z">>
Stamp2024 == <<"2","0","2","4","-","0","6","-","0","1","T","0","0",":","0","0",":","0","0","Z">>
Stamp2023c == <<"2","0","2","3","-","1","2","-","3","1","T","2","3",":","5","9",":","5","9","Z">>
Stamp2022z == <<"2","0","2","2","-","1","2","-","3","1","T","2","3",":","5","9",":","5","9","-","0","5",":","0","0">>
Stamp2024f == <<"2","0","2","4","-","0","2","-","2","9","T","0","7",":","3","0",":","0","0",".","5","+","0","1",":","0","0">>
StampNoZone == <<"2","0","2","3","-","0","1","-","0","1","T","0","0",":","0","0",":","0","0">>
StampFeb30 == <<"2","0","2","3","-","0","2","-","3","0","T","0","0",":","0","0",":","0","0","Z">>
StampEmpty == <<>>

TrackID(i) == "t" \o ToString(i)

\* the timestamp of the i-th liked track of a library of the given shape
StampOf(shape, i) ==
    CASE shape = "same" -> Stamp2023a
      [] shape = "mixed" ->
            (IF i % 3 = 1 THEN Stamp2023a
             ELSE IF i % 3 = 2 THEN Stamp2024 ELSE Stamp2023c)
      [] shape = "zones" ->
            (IF i % 3 = 1 THEN Stamp2024f
             ELSE IF i % 3 = 2 THEN Stamp2022z ELSE Stamp2023a)
      [] shape = "bad" ->
            (IF i % 4 = 1 THEN StampNoZone
             ELSE IF i % 4 = 2 THEN Stamp2024
             ELSE IF i % 4 = 3 THEN StampFeb30 ELSE Stamp2023c)
      [] shape = "allbad" ->
            (IF i % 2 = 1 THEN StampEmpty ELSE StampFeb30)

Liked(n, shape) ==
    [i \in 1..n |-> [ID |-> TrackID(i), AddedAt |-> StampOf(shape, i)]]

Playlist(id, name, owner, items) ==
    [ID |-> id, Name |-> name, Owner |-> owner, Items |-> items, Image |-> FALSE]

\* n items foreign to the liked library
OldItems(n) == [i \in 1..n |-> "x" \o ToString(i)]

\* the playlists of interest of a collection of the given kind; k is the
\* position of the first of them in the collection
Special(kind, k) ==
    LET id(j) == "p" \o ToString(k + j)
    IN  CASE kind = "none" -> <<>>
          [] kind = "own23" ->
                <<Playlist(id(0), "Liked Songs (2023)", Me, OldItems(2))>>
          [] kind = "empty23" ->
                <<Playlist(id(0), "Liked Songs (2023)", Me, <<>>)>>
          [] kind = "done23" ->
                <<Playlist(id(0), "Liked Songs (2023)", Me, <<"t1", "t3">>)>>
          [] kind = "foreign23" ->
                <<Playlist(id(0), "Liked Songs (2023)", Other, OldItems(1)),
                  Playlist(id(1), "Liked Songs (2023)", Me, OldItems(2))>>
          [] kind = "onlyforeign" ->
                <<Playlist(id(0), "Liked Songs (2023)", Other, OldItems(1)),
                  Playlist(id(1), "Liked Songs (2024)", Other, OldItems(2))>>
          [] kind = "lower" ->
                <<Playlist(id(0), "liked songs (2023)", Me, OldItems(1)),
                  Playlist(id(1), "Liked Songs (2023) ", Me, OldItems(2))>>
          [] kind = "dirty" ->
                <<Playlist(id(0), "Liked Songs (2023)", Me,
                           <<"x1", EmptyID, "x1", "t1", "x2">>)>>
          [] kind = "blank" ->
                <<Playlist(id(0), "Liked Songs (2023)", Me,
                           <<EmptyID, EmptyID>>)>>
          [] kind = "both" ->
                <<Playlist(id(0), "Liked Songs (2024)", Me, OldItems(3)),
                  Playlist(id(1), "Liked Songs (2023)", Me, OldItems(1))>>
          [] kind = "dup" ->
                <<Playlist(id(0), "Liked Songs (2023)", Me, OldItems(1)),
                  Playlist(id(1), "Liked Songs (2023)", Me, OldItems(2))>>
          [] kind = "big" ->
                <<Playlist(id(0), "Liked Songs (2023)", Me,
                           OldItems(MaxBatches * RemoveBatchSize + 1))>>
          [] kind = "full" ->
                <<Playlist(id(0), "Liked Songs (2023)", Me,
                           OldItems(MaxBatches * RemoveBatchSize))>>

Filler(n) ==
    [i \in 1..n |-> Playlist("p" \o ToString(i), "Mix " \o ToString(i),
                             IF i % 2 = 0 THEN Me ELSE Other, <<>>)]

Collection(fillers, kind) == Filler(fillers) \o Special(kind, fillers + 1)

\* the sizes of the liked libraries
BigSizes == UNION {{k * AddBatchSize, k * AddBatchSize + 1} : k \in 1..MaxBatches}
\* the numbers of unrelated playlists in front
FillerCounts ==
    UNION {{k * PlaylistsLimit - 1, k * PlaylistsLimit} : k \in 1..MaxFillerPages}

SmallKinds == {"none", "own23", "empty23", "done23", "foreign23", "onlyforeign",
               "lower", "dirty", "blank", "both", "dup"}

\* the initial remote states: <<liked size, liked shape, fillers, kind>>
Scenarios ==
    ({3} \X {"mixed"} \X {0} \X SmallKinds)
    \cup ({3} \X {"zones"} \X {0} \X {"none", "own23", "dirty"})
    \cup ({6} \X {"bad"} \X {0} \X {"none", "own23", "dirty"})
    \cup ({0, 1, 2} \X {"same", "allbad"} \X {0} \X {"none", "own23"})
    \cup (BigSizes \X {"same"} \X {0} \X {"none", "own23"})
    \cup ({AddBatchSize + 1} \X {"same"} \X {0} \X {"dirty"})
    \cup ({MaxBatches * AddBatchSize + 1} \X {"mixed"} \X {0} \X {"none"})
    \cup ({1} \X {"same"} \X {0} \X {"big", "full"})
    \cup ({3} \X {"mixed"} \X FillerCounts
               \X {"none", "foreign23", "onlyforeign", "both", "dup"})

\* ------------------------------------------------------------------------
\* Run, one step per remote call
\* ------------------------------------------------------------------------

\* a remote call as the client sees it: the operation, the year being
\* processed (0 before the first), the playlist, the name (create), the
\* identifiers sent (mutations) or received (page fetches), the offset asked
\* for, and whether it succeeded
Call(op, year, pid, name, ids, off, ok) ==
    [op |-> op, year |-> year, pid |-> pid, name |-> name, ids |-> ids,
     off |-> off, ok |-> ok]

\* the outcomes a remote call may have
Outcomes ==
    IF cancelled THEN {FALSE}
    ELSE IF fails < MaxFails THEN {TRUE, FALSE} ELSE {TRUE}

\* the outcomes an image step may have
ImgOutcomes == IF imgFails < MaxImgFails THEN {TRUE, FALSE} ELSE {TRUE}

\* the outcomes the upload of an image may have: it is a remote call
UploadOutcomes == IF cancelled THEN {FALSE} ELSE ImgOutcomes

CurYear == years[yi]

IDsOf(tracks) == [k \in 1..Len(tracks) |-> tracks[k].ID]

Init ==
    /\ \E sc \in Scenarios :
          /\ liked = Liked(sc[1], sc[2])
          /\ playlists = Collection(sc[3], sc[4])
    /\ pc = "fetchLiked"
    /\ result = "none"
    /\ allTracks = <<>>
    /\ offset = 0
    /\ tracksByYear = NoBuckets
    /\ years = <<>>
    /\ yi = 0
    /\ existingPlaylist = NoPlaylist
    /\ playlistID = EmptyID
    /\ tracksToRemove = <<>>
    /\ bi = 0
    /\ calls = <<>>
    /\ runs = 1
    /\ fails = 0
    /\ imgFails = 0
    /\ pre = playlists
    /\ artists = {}
    /\ filterTotal = -1
    /\ cancelled = FALSE
    /\ handlers = <<>>
    /\ server = "none"
    /\ errChan = <<>>

\* return fmt.Errorf(...) after the remote call failed
Abort(call) ==
    /\ calls' = Append(calls, call)
    /\ fails' = fails + 1
    /\ pc' = "done"
    /\ result' = "err"
    /\ UNCHANGED <<remote, locals, runs, imgFails, pre>>

\* Run: a call to Run after the previous one returned nil
StartRun ==
    /\ pc = "done"
    /\ result = "nil"
    /\ runs < MaxRuns
    /\ runs' = runs + 1
    /\ pre' = playlists
    /\ pc' = "fetchLiked"
    /\ result' = "none"
    /\ allTracks' = <<>>
    /\ offset' = 0
    /\ tracksByYear' = NoBuckets
    /\ years' = <<>>
    /\ yi' = 0
    /\ existingPlaylist' = NoPlaylist
    /\ playlistID' = EmptyID
    /\ tracksToRemove' = <<>>
    /\ bi' = 0
    /\ calls' = <<>>
    /\ UNCHANGED <<remote, fails, imgFails>>

\* fetchAllLikedTracks: one iteration of its loop, then Run up to CurrentUser
FetchLikedPage ==
    /\ pc = "fetchLiked"
    /\ \E ok \in Outcomes, total \in Totals(liked) :
          LET page == PageOf(liked, offset, LikedLimit)
              call == Call("CurrentUsersTracks", 0, EmptyID, "",
                           IF ok THEN IDsOf(page) ELSE <<>>, offset, ok)
          IN  IF ~ok THEN Abort(call)
              ELSE
              /\ calls' = Append(calls, call)
              /\ IF LikedPageDone(page, total, offset)
                 THEN IF Len(allTracks) = 0
                      THEN /\ pc' = "done"
                           /\ result' = "nil"
                           /\ UNCHANGED <<allTracks, offset, tracksByYear>>
                      ELSE /\ tracksByYear' = groupTracksByYear(allTracks)
                           /\ pc' = "currentUser"
                           /\ UNCHANGED <<allTracks, offset, result>>
                 ELSE /\ allTracks' = allTracks \o page
                      /\ offset' = offset + Len(page)
                      /\ UNCHANGED <<pc, result, tracksByYear>>
              /\ UNCHANGED <<remote, years, yi, existingPlaylist, playlistID,
                             tracksToRemove, bi, runs, fails, imgFails, pre>>

\* Run: CurrentUser, the sorted years, and the entry of the loop over them
GetCurrentUser ==
    /\ pc = "currentUser"
    /\ \E ok \in Outcomes :
          LET call == Call("CurrentUser", 0, EmptyID, "", <<>>, 0, ok)
              ys == SortInts(DOMAIN tracksByYear)
          IN  IF ~ok THEN Abort(call)
              ELSE
              /\ calls' = Append(calls, call)
              /\ years' = ys
              /\ IF Len(ys) = 0
                 THEN /\ pc' = "done"
                      /\ result' = "nil"
                      /\ UNCHANGED <<yi, offset>>
                 ELSE /\ yi' = 1
                      /\ offset' = 0
                      /\ pc' = "locate"
                      /\ UNCHANGED result
              /\ UNCHANGED <<remote, allTracks, tracksByYear, existingPlaylist,
                             playlistID, tracksToRemove, bi, runs, fails,
                             imgFails, pre>>

\* findExistingPlaylist: one iteration of its loop, then Run's branch on
\* what it returned
LocatePage ==
    /\ pc = "locate"
    /\ \E ok \in Outcomes, total \in Totals(playlists) :
          LET name == PlaylistName(CurYear)
              page == PageOf(playlists, offset, PlaylistsLimit)
              m == FirstMatch(page, name, CurrentUserID)
              call == Call("GetPlaylistsForUser", CurYear, EmptyID, name,
                           IF ok THEN IDsOf(page) ELSE <<>>, offset, ok)
          IN  IF ~ok THEN Abort(call)
              ELSE
              /\ calls' = Append(calls, call)
              /\ IF m # 0
                 THEN /\ existingPlaylist' = Simple(page[m])
                      /\ playlistID' = page[m].ID
                      /\ tracksToRemove' = <<>>
                      /\ offset' = 0
                      /\ pc' = AfterLocate(TRUE)
                 ELSE IF PlaylistsPageDone(page, total, offset)
                 THEN /\ existingPlaylist' = NoPlaylist
                      /\ playlistID' = EmptyID
                      /\ pc' = AfterLocate(FALSE)
                      /\ UNCHANGED <<tracksToRemove, offset>>
                 ELSE /\ offset' = offset + Len(page)
                      /\ UNCHANGED <<existingPlaylist, playlistID,
                                     tracksToRemove, pc>>
              /\ UNCHANGED <<remote, result, allTracks, tracksByYear, years,
                             yi, bi, runs, fails, imgFails, pre>>

\* a variant of FetchItemsPage that starts the removal as soon as a page
\* brought an identifier
FetchItemsPageEager ==
    /\ pc = "clearFetch"
    /\ \E ok \in Outcomes, total \in Totals(ItemsOf(playlists, playlistID)) :
          LET page == PageOf(ItemsOf(playlists, playlistID), offset, ItemsLimit)
              call == Call("GetPlaylistTracks", CurYear, playlistID, "",
                           IF ok THEN page ELSE <<>>, offset, ok)
          IN  IF ~ok THEN Abort(call)
              ELSE
              /\ calls' = Append(calls, call)
              /\ IF ItemsPageDone(page, total, offset)
                 THEN /\ pc' = IF Len(tracksToRemove) = 0 THEN "image" ELSE "remove"
                      /\ bi' = 0
                      /\ UNCHANGED <<tracksToRemove, offset>>
                 ELSE /\ tracksToRemove' = tracksToRemove \o ValidIDs(page)
                      /\ offset' = offset + Len(page)
                      /\ pc' = IF Len(tracksToRemove') = 0 THEN pc ELSE "remove"
                      /\ bi' = 0
              /\ UNCHANGED <<remote, result, allTracks, tracksByYear, years,
                             yi, existingPlaylist, playlistID, runs, fails,
                             imgFails, pre>>

\* fetchAllPlaylistTracks: one iteration of its loop, then the entry of
\* removeTracksInBatches
FetchItemsPage ==
    /\ pc = "clearFetch"
    /\ \E ok \in Outcomes, total \in Totals(ItemsOf(playlists, playlistID)) :
          LET page == PageOf(ItemsOf(playlists, playlistID), offset, ItemsLimit)
              call == Call("GetPlaylistTracks", CurYear, playlistID, "",
                           IF ok THEN page ELSE <<>>, offset, ok)
          IN  IF ~ok THEN Abort(call)
              ELSE
              /\ calls' = Append(calls, call)
              /\ IF ItemsPageDone(page, total, offset)
                 THEN /\ pc' = IF Len(tracksToRemove) = 0 THEN "image" ELSE "remove"
                      /\ bi' = 0
                      /\ UNCHANGED <<tracksToRemove, offset>>
                 ELSE /\ tracksToRemove' = tracksToRemove \o ValidIDs(page)
                      /\ offset' = offset + Len(page)
                      /\ UNCHANGED <<pc, bi>>
              /\ UNCHANGED <<remote, result, allTracks, tracksByYear, years,
                             yi, existingPlaylist, playlistID, runs, fails,
                             imgFails, pre>>

\* a variant of RemoveBatch that logs a failed batch and goes on
RemoveBatchFailSoft ==
    /\ pc = "remove"
    /\ \E ok \in Outcomes :
          LET end == BatchEnd(bi, Len(tracksToRemove), RemoveBatchSize)
              batch == Slice(tracksToRemove, bi, end)
              call == Call("RemoveTracksFromPlaylist", CurYear, playlistID, "",
                           batch, 0, ok)
          IN  /\ calls' = Append(calls, call)
              /\ playlists' = IF ok THEN RemoteRemove(playlists, playlistID, batch)
                              ELSE playlists
              /\ fails' = IF ok THEN fails ELSE fails + 1
              /\ bi' = bi + RemoveBatchSize
              /\ pc' = IF bi + RemoveBatchSize < Len(tracksToRemove)
                       THEN "remove" ELSE "image"
              /\ UNCHANGED <<liked, result, allTracks, offset, tracksByYear,
                             years, yi, existingPlaylist, playlistID,
                             tracksToRemove, runs, imgFails, pre>>

\* removeTracksInBatches: one iteration of its loop
RemoveBatch ==
    /\ pc = "remove"
    /\ \E ok \in Outcomes :
          LET end == BatchEnd(bi, Len(tracksToRemove), RemoveBatchSize)
              batch == Slice(tracksToRemove, bi, end)
              call == Call("RemoveTracksFromPlaylist", CurYear, playlistID, "",
                           batch, 0, ok)
          IN  IF ~ok THEN Abort(call)
              ELSE
              /\ calls' = Append(calls, call)
              /\ playlists' = RemoteRemove(playlists, playlistID, batch)
              /\ bi' = bi + RemoveBatchSize
              /\ pc' = IF bi + RemoveBatchSize < Len(tracksToRemove)
                       THEN "remove" ELSE "image"
              /\ UNCHANGED <<liked, result, allTracks, offset, tracksByYear,
                             years, yi, existingPlaylist, playlistID,
                             tracksToRemove, runs, fails, imgFails, pre>>

\* Run: CreatePlaylistForUser
CreatePlaylist ==
    /\ pc = "create"
    /\ \E ok \in Outcomes :
          LET name == PlaylistName(CurYear)
              call == Call("CreatePlaylistForUser", CurYear,
                           IF ok THEN NewPlaylistID(playlists) ELSE EmptyID,
                           name, <<>>, 0, ok)
          IN  IF ~ok THEN Abort(call)
              ELSE
              /\ calls' = Append(calls, call)
              /\ playlists' = RemoteCreate(playlists, CurrentUserID, name)
              /\ playlistID' = NewPlaylistID(playlists)
              /\ pc' = "image"
              /\ UNCHANGED <<liked, result, allTracks, offset, tracksByYear,
                             years, yi, existingPlaylist, tracksToRemove, bi,
                             runs, fails, imgFails, pre>>

\* Run: imgGen.GenerateForPlaylist; on an error it is logged and Run goes on
\* to addTracksInBatches (a bucket is never empty: a year is a key of the map
\* only once an identifier was appended to it)
GenerateImage ==
    /\ pc = "image"
    /\ \E ok \in ImgOutcomes :
          /\ pc' = IF ok THEN "upload" ELSE "fill"
          /\ imgFails' = IF ok THEN imgFails ELSE imgFails + 1
          /\ bi' = 0
    /\ UNCHANGED <<remote, result, allTracks, offset, tracksByYear, years, yi,
                   existingPlaylist, playlistID, tracksToRemove, calls, runs,
                   fails, pre>>

\* a variant of UploadImage that returns the upload's error
UploadImageFatal ==
    /\ pc = "upload"
    /\ \E ok \in UploadOutcomes :
          /\ calls' = Append(calls, Call("SetPlaylistImage", CurYear,
                                         playlistID, "", <<>>, 0, ok))
          /\ playlists' = IF ok THEN RemoteSetImage(playlists, playlistID)
                          ELSE playlists
          /\ imgFails' = IF ok THEN imgFails ELSE imgFails + 1
          /\ pc' = IF ok THEN "fill" ELSE "done"
          /\ result' = IF ok THEN result ELSE "err"
          /\ bi' = 0
    /\ UNCHANGED <<liked, allTracks, offset, tracksByYear, years, yi,
                   existingPlaylist, playlistID, tracksToRemove, runs, fails,
                   pre>>

\* Run: SetPlaylistImage; on an error it is logged and Run goes on
UploadImage ==
    /\ pc = "upload"
    /\ \E ok \in UploadOutcomes :
          /\ calls' = Append(calls, Call("SetPlaylistImage", CurYear,
                                         playlistID, "", <<>>, 0, ok))
          /\ playlists' = IF ok THEN RemoteSetImage(playlists, playlistID)
                          ELSE playlists
          /\ imgFails' = IF ok THEN imgFails ELSE imgFails + 1
          /\ pc' = "fill"
          /\ bi' = 0
    /\ UNCHANGED <<liked, result, allTracks, offset, tracksByYear, years, yi,
                   existingPlaylist, playlistID, tracksToRemove, runs, fails,
                   pre>>

\* addTracksInBatches: one iteration of its loop, then the next year of Run
AddBatch ==
    /\ pc = "fill"
    /\ \E ok \in Outcomes :
          LET trackIDs == tracksByYear[CurYear]
              end == BatchEnd(bi, Len(trackIDs), AddBatchSize)
              batch == Slice(trackIDs, bi, end)
              call == Call("AddTracksToPlaylist", CurYear, playlistID, "",
                           batch, 0, ok)
          IN  IF ~ok THEN Abort(call)
              ELSE
              /\ calls' = Append(calls, call)
              /\ playlists' = RemoteAdd(playlists, playlistID, batch)
              /\ IF bi + AddBatchSize < Len(trackIDs)
                 THEN /\ bi' = bi + AddBatchSize
                      /\ UNCHANGED <<pc, result, yi, offset>>
                 ELSE /\ bi' = bi + AddBatchSize
                      /\ IF yi < Len(years)
                         THEN /\ yi' = yi + 1
                              /\ offset' = 0
                              /\ pc' = "locate"
                              /\ UNCHANGED result
                         ELSE /\ pc' = "done"
                              /\ result' = "nil"
                              /\ UNCHANGED <<yi, offset>>
              /\ UNCHANGED <<liked, allTracks, tracksByYear, years,
                             existingPlaylist, playlistID, tracksToRemove,
                             runs, fails, imgFails, pre>>

Next ==
    \/ StartRun /\ UNCHANGED filterVars
    \/ FetchLikedPage /\ UNCHANGED filterVars
    \/ GetCurrentUser /\ UNCHANGED filterVars
    \/ LocatePage /\ UNCHANGED filterVars
    \/ FetchItemsPage /\ UNCHANGED filterVars
    \/ RemoveBatch /\ UNCHANGED filterVars
    \/ CreatePlaylist /\ UNCHANGED filterVars
    \/ GenerateImage /\ UNCHANGED filterVars
    \/ UploadImage /\ UNCHANGED filterVars
    \/ AddBatch /\ UNCHANGED filterVars

Spec == Init /\ [][Next]_vars

\* ------------------------------------------------------------------------
\* The artist filter: artistTrackRemover.Run, one step per remote call
\* ------------------------------------------------------------------------

\* Run: limit
FilterLimit == 50

\* NewArtistTrackRemover: the set built from the configured list of names
ArtistSet(artistsToRemove) == Range(artistsToRemove)

\* findTracksToRemove: whether some artist of the item is in the set
HasBlockedArtist(item, set) ==
    \E k \in 1..Len(item.Artists) : item.Artists[k] \in set

\* how many artists of the item are in the set
BlockedCount(item, set) ==
    Cardinality({k \in 1..Len(item.Artists) : item.Artists[k] \in set})

\* a variant of findTracksToRemove whose inner loop has no break: the item
\* is marked once for each of its artists that is in the set
RECURSIVE findTracksToRemoveNoBreak(_, _)
findTracksToRemoveNoBreak(savedTracks, set) ==
    IF Len(savedTracks) = 0 THEN <<>>
    ELSE [k \in 1..BlockedCount(Head(savedTracks), set) |->
             Head(savedTracks).ID]
         \o findTracksToRemoveNoBreak(Tail(savedTracks), set)

\* findTracksToRemove: the identifiers of the items of the page that have
\* an artist in the set, in page order, each item once
findTracksToRemove(savedTracks, set) ==
    IDsOf(SelectSeq(savedTracks, LAMBDA item : HasBlockedArtist(item, set)))

\* RemoveTracksFromLibrary: the tracks with these identifiers leave the
\* library, the others keep their order
LibraryRemove(lib, ids) == SelectSeq(lib, LAMBDA t : t.ID \notin Range(ids))

\* Run: if total != -1 && offset >= total { break }
FilterStop(seen, off) == seen # -1 /\ off >= seen

\* a variant of FilterAdvance that advances by the number of items of the
\* page, as the pagers of the sorter do
FilterAdvanceByPage(seen) ==
    /\ offset' = offset + Len(PageOf(liked, offset, FilterLimit))
    /\ IF FilterStop(seen, offset')
       THEN /\ pc' = "done"
            /\ result' = "nil"
       ELSE /\ pc' = "filterFetch"
            /\ UNCHANGED result

\* Run: offset += limit, then the test of the total
FilterAdvance(seen) ==
    /\ offset' = offset + FilterLimit
    /\ IF FilterStop(seen, offset')
       THEN /\ pc' = "done"
            /\ result' = "nil"
       ELSE /\ pc' = "filterFetch"
            /\ UNCHANGED result

\* Run: the head of the loop: CurrentUsersTracks, total, the empty page,
\* findTracksToRemove, and the rest of the iteration when nothing is marked
FilterFetchPage ==
    /\ pc = "filterFetch"
    /\ \E ok \in Outcomes, reported \in Totals(liked) :
          LET page == PageOf(liked, offset, FilterLimit)
              call == Call("CurrentUsersTracks", 0, EmptyID, "",
                           IF ok THEN IDsOf(page) ELSE <<>>, offset, ok)
              seen == IF filterTotal = -1 THEN reported ELSE filterTotal
              marked == findTracksToRemove(page, artists)
          IN  IF ~ok THEN Abort(call) /\ UNCHANGED filterVars
              ELSE
              /\ calls' = Append(calls, call)
              /\ filterTotal' = seen
              /\ IF Len(page) = 0
                 THEN /\ pc' = "done"
                      /\ result' = "nil"
                      /\ UNCHANGED <<offset, tracksToRemove>>
                 ELSE /\ tracksToRemove' = marked
                      /\ IF Len(marked) > 0
                         THEN /\ pc' = "filterRemove"
                              /\ UNCHANGED <<offset, result>>
                         ELSE FilterAdvance(seen)
              /\ UNCHANGED <<remote, allTracks, tracksByYear, years, yi,
                             existingPlaylist, playlistID, bi, runs, fails,
                             imgFails, pre, artists, cancelled, authVars>>

\* a variant of FilterRemove that returns the removal's error
FilterRemoveFatal ==
    /\ pc = "filterRemove"
    /\ \E ok \in Outcomes :
          LET call == Call("RemoveTracksFromLibrary", 0, EmptyID, "",
                           tracksToRemove, offset, ok)
          IN  IF ~ok THEN Abort(call) /\ UNCHANGED filterVars
              ELSE
              /\ calls' = Append(calls, call)
              /\ liked' = LibraryRemove(liked, tracksToRemove)
              /\ FilterAdvance(filterTotal)
              /\ UNCHANGED <<playlists, allTracks, tracksByYear, years, yi,
                             existingPlaylist, playlistID, tracksToRemove,
                             bi, runs, fails, imgFails, pre, filterVars>>

\* Run: RemoveTracksFromLibrary for the marked tracks of the page (an error
\* is logged), then the rest of the iteration
FilterRemove ==
    /\ pc = "filterRemove"
    /\ \E ok \in Outcomes :
          /\ calls' = Append(calls, Call("RemoveTracksFromLibrary", 0,
                                         EmptyID, "", tracksToRemove,
                                         offset, ok))
          /\ liked' = IF ok THEN LibraryRemove(liked, tracksToRemove)
                      ELSE liked
          /\ fails' = IF ok THEN fails ELSE fails + 1
          /\ FilterAdvance(filterTotal)
    /\ UNCHANGED <<playlists, allTracks, tracksByYear, years, yi,
                   existingPlaylist, playlistID, tracksToRemove, bi, runs,
                   imgFails, pre, filterVars>>

\* the artists of the tracks of the catalogue, by position
ArtistsOf(i) ==
    CASE i % 10 = 1 -> <<"Bad">>
      [] i % 10 = 3 -> <<"Good", "Bad">>
      [] i % 10 = 4 -> <<"Worse", "Bad">>
      [] i % 10 = 7 -> <<"Worse">>
      [] i % 10 = 9 -> <<>>
      [] OTHER -> <<"Good">>

\* a liked library of n tracks with their artists
Library(n) ==
    [i \in 1..n |-> [ID |-> TrackID(i), AddedAt |-> Stamp2023a,
                     Artists |-> ArtistsOf(i)]]

\* the sizes of the libraries: none, less than a page, a page, more
LibrarySizes ==
    {0, 1, 3, FilterLimit - 1, FilterLimit, FilterLimit + 1, FilterLimit + 10,
     2 * FilterLimit + 1}

\* the configured lists of blocked artists
Blocklists ==
    {<<>>, <<"Bad">>, <<"Worse">>, <<"Bad", "Worse">>, <<"Nobody">>}

InitFilter ==
    /\ \E n \in LibrarySizes : liked = Library(n)
    /\ \E list \in Blocklists : artists = ArtistSet(list)
    /\ playlists = <<>>
    /\ pc = "filterFetch"
    /\ result = "none"
    /\ allTracks = <<>>
    /\ offset = 0
    /\ tracksByYear = NoBuckets
    /\ years = <<>>
    /\ yi = 0
    /\ existingPlaylist = NoPlaylist
    /\ playlistID = EmptyID
    /\ tracksToRemove = <<>>
    /\ bi = 0
    /\ calls = <<>>
    /\ runs = 1
    /\ fails = 0
    /\ imgFails = 0
    /\ pre = playlists
    /\ filterTotal = -1
    /\ cancelled = FALSE
    /\ handlers = <<>>
    /\ server = "none"
    /\ errChan = <<>>

NextFilter ==
    \/ FilterFetchPage
    \/ FilterRemove

SpecFilter == InitFilter /\ [][NextFilter]_vars

\* ------------------------------------------------------------------------
\* Cancellation of the context of Run
\* ------------------------------------------------------------------------

\* the context passed to Run is cancelled while Run is running; from then on
\* every remote call made with it returns an error and changes nothing
Cancel ==
    /\ pc # "done"
    /\ ~cancelled
    /\ cancelled' = TRUE
    /\ UNCHANGED <<remote, pc, result, locals, calls, runs, fails, imgFails,
                   pre, artists, filterTotal, authVars>>

\* one run of either processor, from the smaller inputs
InitCancel ==
    \/ Init /\ Len(liked) <= 6 /\ Len(playlists) <= 2
    \/ InitFilter

NextCancel ==
    \/ Cancel
    \/ FetchLikedPage /\ UNCHANGED filterVars
    \/ GetCurrentUser /\ UNCHANGED filterVars
    \/ LocatePage /\ UNCHANGED filterVars
    \/ FetchItemsPage /\ UNCHANGED filterVars
    \/ RemoveBatch /\ UNCHANGED filterVars
    \/ CreatePlaylist /\ UNCHANGED filterVars
    \/ GenerateImage /\ UNCHANGED filterVars
    \/ UploadImage /\ UNCHANGED filterVars
    \/ AddBatch /\ UNCHANGED filterVars
    \/ FilterFetchPage
    \/ FilterRemove

SpecCancel == InitCancel /\ [][NextCancel]_vars

\* ------------------------------------------------------------------------
\* A run after a run that returned an error
\* ------------------------------------------------------------------------

\* Run: a call to Run after the previous one returned an error; pre stays
\* the remote playlists of the first run, and the log of calls starts with
\* the failed call that ended the previous run
Restart ==
    /\ pc = "done"
    /\ result = "err"
    /\ runs < MaxRuns
    /\ runs' = runs + 1
    /\ pc' = "fetchLiked"
    /\ result' = "none"
    /\ allTracks' = <<>>
    /\ offset' = 0
    /\ tracksByYear' = NoBuckets
    /\ years' = <<>>
    /\ yi' = 0
    /\ existingPlaylist' = NoPlaylist
    /\ playlistID' = EmptyID
    /\ tracksToRemove' = <<>>
    /\ bi' = 0
    /\ calls' = <<calls[Len(calls)]>>
    /\ UNCHANGED <<remote, fails, imgFails, pre, filterVars>>

NextRecover ==
    \/ Restart
    \/ FetchLikedPage /\ UNCHANGED filterVars
    \/ GetCurrentUser /\ UNCHANGED filterVars
    \/ LocatePage /\ UNCHANGED filterVars
    \/ FetchItemsPage /\ UNCHANGED filterVars
    \/ RemoveBatch /\ UNCHANGED filterVars
    \/ CreatePlaylist /\ UNCHANGED filterVars
    \/ GenerateImage /\ UNCHANGED filterVars
    \/ UploadImage /\ UNCHANGED filterVars
    \/ AddBatch /\ UNCHANGED filterVars

\* a playlist of the collection needs more than one removal batch
HasBigPlaylist ==
    \E k \in 1..Len(playlists) : Len(playlists[k].Items) > RemoveBatchSize

\* the first run starts from the inputs with three liked tracks, with one
\* addition batch and a remainder, or with a playlist of more than one
\* removal batch, and one page of playlists
InitRecover ==
    /\ Init
    /\ Len(liked) \in {3, AddBatchSize + 1} \/ HasBigPlaylist
    /\ Len(playlists) < PlaylistsLimit

SpecRecover == InitRecover /\ [][NextRecover]_vars

\* ------------------------------------------------------------------------
\* One run of either processor, with every remote call returning
\* ------------------------------------------------------------------------

\* the run is followed for at most MaxCalls remote calls
Followed == Len(calls) < MaxCalls

InitTerm ==
    \/ Init
    \/ InitFilter

NextTerm ==
    \/ Followed /\ FetchLikedPage /\ UNCHANGED filterVars
    \/ Followed /\ GetCurrentUser /\ UNCHANGED filterVars
    \/ Followed /\ LocatePage /\ UNCHANGED filterVars
    \/ Followed /\ FetchItemsPage /\ UNCHANGED filterVars
    \/ Followed /\ RemoveBatch /\ UNCHANGED filterVars
    \/ Followed /\ CreatePlaylist /\ UNCHANGED filterVars
    \/ Followed /\ GenerateImage /\ UNCHANGED filterVars
    \/ Followed /\ UploadImage /\ UNCHANGED filterVars
    \/ Followed /\ AddBatch /\ UNCHANGED filterVars
    \/ Followed /\ FilterFetchPage
    \/ Followed /\ FilterRemove

\* Run is one goroutine and every call it makes returns: a step that can
\* be taken is taken
SpecTerm == InitTerm /\ [][NextTerm]_vars /\ WF_vars(NextTerm)

\* ------------------------------------------------------------------------
\* Authenticator.GetClient: the select, the callback handlers and the
\* ListenAndServe goroutine
\* ------------------------------------------------------------------------

\* GetClient: errChan := make(chan error, 1)
ErrChanCap == 1

\* what GetClient and its goroutines never write
runVars == <<remote, locals, calls, runs, fails, imgFails, pre, artists,
             filterTotal>>

\* the callback requests that may reach the server
Callbacks == 1..MaxCallbacks

InitAuth ==
    /\ handlers = [h \in Callbacks |-> "idle"]
    /\ server = "start"
    /\ errChan = <<>>
    /\ cancelled = FALSE
    /\ pc = "select"
    /\ result = "none"
    /\ liked = <<>>
    /\ playlists = <<>>
    /\ allTracks = <<>>
    /\ offset = 0
    /\ tracksByYear = NoBuckets
    /\ years = <<>>
    /\ yi = 0
    /\ existingPlaylist = NoPlaylist
    /\ playlistID = EmptyID
    /\ tracksToRemove = <<>>
    /\ bi = 0
    /\ calls = <<>>
    /\ runs = 1
    /\ fails = 0
    /\ imgFails = 0
    /\ pre = playlists
    /\ artists = {}
    /\ filterTotal = -1

\* GetClient has returned: the select has fired and the deferred
\* server.Shutdown has come back
Returned == pc = "done"

\* server.Shutdown has been called: the listener is closed and
\* ListenAndServe answers ErrServerClosed
InShutdown == pc \in {"shutdown", "done"}

\* the server accepts the connection of a request for /callback; after
\* Shutdown has closed the listener no connection is accepted
CallbackAccepted(h) ==
    /\ ~InShutdown
    /\ server = "serving"
    /\ handlers[h] = "idle"
    /\ \A g \in Callbacks : g < h => handlers[g] # "idle"
    /\ handlers' = [handlers EXCEPT ![h] = "accepted"]
    /\ UNCHANGED <<pc, result, cancelled, server, errChan, runVars>>

\* the request is read on an accepted connection and the handler starts in
\* the goroutine of the connection; Shutdown does not end a connection that
\* is new or in use, so this may happen during and after Shutdown
CallbackArrives(h) ==
    /\ handlers[h] = "accepted"
    /\ handlers' = [handlers EXCEPT ![h] = "token"]
    /\ UNCHANGED <<pc, result, cancelled, server, errChan, runVars>>

\* while it waits, Shutdown closes a connection on which no request was
\* read
ConnClosed(h) ==
    /\ pc = "shutdown"
    /\ handlers[h] = "accepted"
    /\ handlers' = [handlers EXCEPT ![h] = "closed"]
    /\ UNCHANGED <<pc, result, cancelled, server, errChan, runVars>>

\* the handler: a.auth.Token returns an error or a token
HandlerToken(h) ==
    /\ handlers[h] = "token"
    /\ \E ok \in {TRUE, FALSE} :
          handlers' = [handlers EXCEPT ![h] = IF ok THEN "write" ELSE "sendErr"]
    /\ UNCHANGED <<pc, result, cancelled, server, errChan, runVars>>

\* the handler: errChan <- "could not get token", which needs room in the
\* buffer, and return
HandlerSendErr(h) ==
    /\ handlers[h] = "sendErr"
    /\ Len(errChan) < ErrChanCap
    /\ errChan' = Append(errChan, "token")
    /\ handlers' = [handlers EXCEPT ![h] = "returned"]
    /\ UNCHANGED <<pc, result, cancelled, server, runVars>>

\* the handler: the response is written; on an error of the write the
\* handler returns
HandlerWrite(h) ==
    /\ handlers[h] = "write"
    /\ \E ok \in {TRUE, FALSE} :
          handlers' = [handlers EXCEPT ![h] = IF ok THEN "sendClient"
                                               ELSE "returned"]
    /\ UNCHANGED <<pc, result, cancelled, server, errChan, runVars>>

\* the handler's clientChan <- client meets the select's <-clientChan (the
\* channel has no buffer): the select yields the client, the handler returns
SelectClient(h) ==
    /\ pc = "select"
    /\ handlers[h] = "sendClient"
    /\ handlers' = [handlers EXCEPT ![h] = "returned"]
    /\ pc' = "deferred"
    /\ result' = "client"
    /\ UNCHANGED <<cancelled, server, errChan, runVars>>

\* the select's <-errChan: the select yields the error
SelectErr ==
    /\ pc = "select"
    /\ Len(errChan) > 0
    /\ errChan' = Tail(errChan)
    /\ pc' = "deferred"
    /\ result' = "err"
    /\ UNCHANGED <<cancelled, handlers, server, runVars>>

\* the select's <-ctx.Done(): the select yields ctx.Err()
SelectDone ==
    /\ pc = "select"
    /\ cancelled
    /\ pc' = "deferred"
    /\ result' = "ctx"
    /\ UNCHANGED <<cancelled, handlers, server, errChan, runVars>>

\* the deferred function calls server.Shutdown, which closes the listener
\* and then waits, three seconds at most, for the connections to end
Shutdown ==
    /\ pc = "deferred"
    /\ pc' = "shutdown"
    /\ UNCHANGED <<result, cancelled, handlers, server, errChan, runVars>>

\* server.Shutdown comes back, with every connection ended or on its
\* timeout, and GetClient returns
ShutdownReturns ==
    /\ pc = "shutdown"
    /\ pc' = "done"
    /\ UNCHANGED <<result, cancelled, handlers, server, errChan, runVars>>

\* the goroutine of startServer enters ListenAndServe, which answers
\* ErrServerClosed at once when Shutdown was called before
ServerEnter ==
    /\ server = "start"
    /\ server' = IF InShutdown THEN "returned" ELSE "listen"
    /\ UNCHANGED <<pc, result, cancelled, handlers, errChan, runVars>>

\* ListenAndServe: the listener is opened
ServerListen ==
    /\ server = "listen"
    /\ server' = "serving"
    /\ UNCHANGED <<pc, result, cancelled, handlers, errChan, runVars>>

\* the goroutine of startServer: ListenAndServe returns an error other
\* than ErrServerClosed, when the listener cannot be opened or, before
\* Shutdown, when accepting fails
ServerFails ==
    /\ \/ server = "listen"
       \/ server = "serving" /\ ~InShutdown
    /\ server' = "sendErr"
    /\ UNCHANGED <<pc, result, cancelled, handlers, errChan, runVars>>

\* the goroutine of startServer: errChan <- "server failed", which needs
\* room in the buffer, and return
ServerSendErr ==
    /\ server = "sendErr"
    /\ Len(errChan) < ErrChanCap
    /\ errChan' = Append(errChan, "server")
    /\ server' = "returned"
    /\ UNCHANGED <<pc, result, cancelled, handlers, runVars>>

\* the goroutine of startServer: after Shutdown ListenAndServe returns
\* ErrServerClosed and the goroutine returns
ServerClosed ==
    /\ InShutdown
    /\ server = "serving"
    /\ server' = "returned"
    /\ UNCHANGED <<pc, result, cancelled, handlers, errChan, runVars>>

NextAuth ==
    \/ \E h \in Callbacks : CallbackAccepted(h)
    \/ \E h \in Callbacks : CallbackArrives(h)
    \/ \E h \in Callbacks : ConnClosed(h)
    \/ \E h \in Callbacks : HandlerToken(h)
    \/ \E h \in Callbacks : HandlerSendErr(h)
    \/ \E h \in Callbacks : HandlerWrite(h)
    \/ \E h \in Callbacks : SelectClient(h)
    \/ SelectErr
    \/ SelectDone
    \/ Shutdown
    \/ ShutdownReturns
    \/ Cancel
    \/ ServerEnter
    \/ ServerListen
    \/ ServerFails
    \/ ServerSendErr
    \/ ServerClosed

SpecAuth == InitAuth /\ [][NextAuth]_vars

\* ------------------------------------------------------------------------
\* What the run is expected to leave behind, computed from the remote state
\* ------------------------------------------------------------------------

ParsedAt(k) == ParseRFC3339(liked[k].AddedAt)

\* the years in which some liked track with a parseable timestamp was added
ParsedYears == {ParsedAt(k).year : k \in {j \in 1..Len(liked) : ParsedAt(j).ok}}

\* the identifiers of the liked tracks added in year y, in listing order
Bucket(y) ==
    IDsOf(SelectSeq(liked, LAMBDA t : ParseRFC3339(t.AddedAt).ok
                                      /\ ParseRFC3339(t.AddedAt).year = y))

\* the positions of the user's own playlists with the name generated for y
OwnNamed(pls, y) ==
    {k \in 1..Len(pls) : pls[k].Name = PlaylistName(y) /\ pls[k].Owner = Me}

NoEmptyItems(pls) ==
    \A k \in 1..Len(pls) : \A i \in 1..Len(pls[k].Items) : pls[k].Items[i] # EmptyID

\* the playlists without their cover images
Contents(pls) == [k \in 1..Len(pls) |-> [ID |-> pls[k].ID, Name |-> pls[k].Name,
                                         Owner |-> pls[k].Owner,
                                         Items |-> pls[k].Items]]

RunReturnedNil == pc = "done" /\ result = "nil"

\* ------------------------------------------------------------------------
\* Claims
\* ------------------------------------------------------------------------

\* C1 (convergence): when Run returned nil and no playlist item had an empty
\* identifier, every year with a parseable liked track has a playlist with
\* the generated name owned by the user, the first such playlist listed holds
\* exactly the year's bucket in listing order, and it is the only one when
\* there was at most one before the run.
C1_Convergence ==
    (RunReturnedNil /\ NoEmptyItems(pre)) =>
        \A y \in ParsedYears :
            /\ OwnNamed(playlists, y) # {}
            /\ playlists[SetMin(OwnNamed(playlists, y))].Items = Bucket(y)
            /\ Cardinality(OwnNamed(pre, y)) <= 1
                  => Cardinality(OwnNamed(playlists, y)) = 1

\* a first run that returned nil after replacing the contents of an existing
\* playlist by a bucket of more than one batch
C1_Witness ==
    /\ RunReturnedNil /\ runs = 1 /\ NoEmptyItems(pre)
    /\ \E y \in ParsedYears :
          /\ OwnNamed(pre, y) # {}
          /\ Len(Bucket(y)) > AddBatchSize
          /\ pre[SetMin(OwnNamed(pre, y))].Items # Bucket(y)

\* a first run that returned nil over two years, one playlist found and the
\* other created
C1_WitnessTwoYears ==
    /\ RunReturnedNil /\ runs = 1 /\ NoEmptyItems(pre)
    /\ Cardinality(ParsedYears) >= 2
    /\ Len(playlists) > Len(pre)
    /\ \E y \in ParsedYears : OwnNamed(pre, y) # {}

\* C2 (idempotence): when a run that follows a run that returned nil returns
\* nil itself, every playlist has the contents it had after the first of the
\* two, and there is no playlist more.
C2_Idempotent ==
    (RunReturnedNil /\ runs >= 2) => Contents(playlists) = Contents(pre)

\* a second run that returned nil after it cleared and refilled a playlist
C2_Witness ==
    /\ RunReturnedNil /\ runs = 2
    /\ \E k \in 1..Len(calls) : calls[k].op = "RemoveTracksFromPlaylist"
    /\ \E k \in 1..Len(calls) : calls[k].op = "AddTracksToPlaylist"

\* the places <<year, index>> of the buckets that hold identifier id
Places(id) ==
    {yi2 \in UNION {{y} \X (1..Len(tracksByYear[y])) : y \in DOMAIN tracksByYear} :
        tracksByYear[yi2[1]][yi2[2]] = id}

\* groupTracksByYear has just returned
JustGrouped == pc = "currentUser"

\* C3 as stated (partition): once the liked tracks are grouped, every fetched
\* track identifier is at exactly one place of exactly one bucket.
C3_Original ==
    JustGrouped =>
        \A k \in 1..Len(allTracks) : Cardinality(Places(allTracks[k].ID)) = 1

\* C3 as amended: for liked tracks with distinct identifiers, a track whose
\* added-timestamp parses is at exactly one place, in the bucket of its year;
\* a track whose timestamp does not parse is in no bucket; and the buckets
\* hold nothing else.
C3_Partition ==
    JustGrouped =>
        /\ \A k \in 1..Len(allTracks) :
              LET t == ParseRFC3339(allTracks[k].AddedAt)
                  at == Places(allTracks[k].ID)
              IN  IF t.ok
                  THEN Cardinality(at) = 1 /\ \A pl \in at : pl[1] = t.year
                  ELSE at = {}
        /\ \A y \in DOMAIN tracksByYear : \A i \in 1..Len(tracksByYear[y]) :
              \E k \in 1..Len(allTracks) : allTracks[k].ID = tracksByYear[y][i]

\* a grouping into two buckets at least, one of them with two tracks, of a
\* library that has a track with an unparseable timestamp
C3_Witness ==
    /\ JustGrouped
    /\ Cardinality(DOMAIN tracksByYear) >= 2
    /\ \E y \in DOMAIN tracksByYear : Len(tracksByYear[y]) >= 2
    /\ \E k \in 1..Len(allTracks) : ~ParseRFC3339(allTracks[k].AddedAt).ok

\* the identifier lists carried by the calls of operation op for year y
BatchesOf(op, y) ==
    LET sel == SelectSeq(calls, LAMBDA c : c.op = op /\ c.year = y)
    IN  [k \in 1..Len(sel) |-> sel[k].ids]

RECURSIVE Flatten(_)
Flatten(ss) == IF Len(ss) = 0 THEN <<>> ELSE Head(ss) \o Flatten(Tail(ss))

Ceil(n, b) == (n + b - 1) \div b

\* removeTracksInBatches has returned nil for the year in progress
ClearDone == pc \in {"image", "upload", "fill"} /\ existingPlaylist # NoPlaylist

\* addTracksInBatches has returned nil for the j-th year
FillDone(j) == j < yi \/ (j = yi /\ RunReturnedNil)

\* C4 (batcher): while no call failed, no removal or addition call carries
\* more than 100 identifiers or none; the batches sent so far for the year in
\* progress are, concatenated, the part of the input before index i; and once
\* the batch loop has returned, the batches are, concatenated, the input, and
\* there are ceil(length / 100) of them (none for an empty input).
C4_Batches ==
    result # "err" =>
        /\ \A k \in 1..Len(calls) :
              calls[k].op \in {"RemoveTracksFromPlaylist", "AddTracksToPlaylist"}
                  => Len(calls[k].ids) >= 1 /\ Len(calls[k].ids) <= 100
        /\ pc = "remove" =>
              Flatten(BatchesOf("RemoveTracksFromPlaylist", CurYear))
                  = SubSeq(tracksToRemove, 1, bi)
        /\ ClearDone =>
              LET bs == BatchesOf("RemoveTracksFromPlaylist", CurYear)
              IN  /\ Flatten(bs) = tracksToRemove
                  /\ Len(bs) = Ceil(Len(tracksToRemove), 100)
        /\ pc = "fill" =>
              Flatten(BatchesOf("AddTracksToPlaylist", CurYear))
                  = SubSeq(tracksByYear[CurYear], 1, bi)
        /\ \A j \in 1..Len(years) :
              FillDone(j) =>
                  LET bs == BatchesOf("AddTracksToPlaylist", years[j])
                  IN  /\ Flatten(bs) = tracksByYear[years[j]]
                      /\ Len(bs) = Ceil(Len(tracksByYear[years[j]]), 100)

\* a clear of more than one batch, the last one partial, followed by a fill
\* of one batch that has returned
C4_Witness ==
    /\ RunReturnedNil
    /\ Len(tracksToRemove) > RemoveBatchSize
    /\ Len(tracksToRemove) % RemoveBatchSize # 0
    /\ Len(BatchesOf("RemoveTracksFromPlaylist", CurYear)) >= 2
    /\ Len(BatchesOf("AddTracksToPlaylist", CurYear)) = 1

\* a fill of more than one batch, the last one partial, that has returned
C4_WitnessAdd ==
    /\ RunReturnedNil
    /\ yi >= 1
    /\ Len(tracksByYear[CurYear]) > AddBatchSize
    /\ Len(tracksByYear[CurYear]) % AddBatchSize # 0

\* a fill of full batches only
C4_WitnessExact ==
    /\ RunReturnedNil
    /\ yi >= 1
    /\ Len(tracksByYear[CurYear]) = MaxBatches * AddBatchSize

\* a clear of a playlist that holds nothing: no removal call
C4_WitnessEmpty ==
    /\ ClearDone
    /\ tracksToRemove = <<>>
    /\ BatchesOf("RemoveTracksFromPlaylist", CurYear) = <<>>

\* findExistingPlaylist has returned a playlist for the year in progress
Located == pc \in {"clearFetch", "remove", "image", "upload", "fill"}
               /\ existingPlaylist # NoPlaylist

\* C5 (locator): when findExistingPlaylist returned without an error, it
\* returned nil only if no listed playlist has the target name and the user
\* as owner, and otherwise the first such playlist in listing order; what it
\* returns always has the target name and the user as owner.
C5_Locator ==
    /\ pc = "create" => OwnNamed(playlists, CurYear) = {}
    /\ Located =>
          /\ existingPlaylist.Name = PlaylistName(CurYear)
          /\ existingPlaylist.Owner = Me
          /\ playlistID = existingPlaylist.ID
    /\ (Located /\ pc \in {"clearFetch", "remove"}) =>
          /\ OwnNamed(playlists, CurYear) # {}
          /\ existingPlaylist =
                Simple(playlists[SetMin(OwnNamed(playlists, CurYear))])

\* a match found on the second page, behind a playlist of the same name that
\* belongs to someone else
C5_Witness ==
    /\ Located /\ pc = "clearFetch"
    /\ IndexOfPlaylist(playlists, playlistID) > PlaylistsLimit
    /\ \E k \in 1..Len(playlists) :
          /\ k < IndexOfPlaylist(playlists, playlistID)
          /\ playlists[k].Name = existingPlaylist.Name
          /\ playlists[k].Owner # Me

\* the first of two matches
C5_WitnessFirst ==
    /\ Located /\ pc = "clearFetch"
    /\ \E k \in 1..Len(playlists) :
          /\ k > IndexOfPlaylist(playlists, playlistID)
          /\ playlists[k].Name = existingPlaylist.Name
          /\ playlists[k].Owner = Me

\* no match in a collection of more than one page that has a playlist of the
\* target name owned by someone else
C5_WitnessNotFound ==
    /\ pc = "create"
    /\ Len(playlists) > PlaylistsLimit
    /\ \E k \in 1..Len(playlists) :
          playlists[k].Name = PlaylistName(CurYear) /\ playlists[k].Owner # Me

\* no match although a playlist of the user has the name in lower case
C5_WitnessCase ==
    /\ pc = "create"
    /\ \E k \in 1..Len(playlists) :
          playlists[k].Name = "liked songs (2023)" /\ playlists[k].Owner = Me
    /\ CurYear = 2023

\* the successful page fetches of operation op for year y, in order
FetchesOf(op, y) ==
    SelectSeq(calls, LAMBDA c : c.op = op /\ c.year = y /\ c.ok)

PagesOf(fs) == [k \in 1..Len(fs) |-> fs[k].ids]

\* the fetches start at offset 0, each next one is past the items received so
\* far, and none follows a page of zero items
PagedInOrder(fs) ==
    \A k \in 1..Len(fs) :
        /\ fs[k].off = Len(Flatten(SubSeq(PagesOf(fs), 1, k - 1)))
        /\ k < Len(fs) => Len(fs[k].ids) > 0

\* the pager has received its page of zero items
PagerDone(fs) == Len(fs) > 0 /\ Len(fs[Len(fs)].ids) = 0

LikedFetches == FetchesOf("CurrentUsersTracks", 0)

ItemFetches == FetchesOf("GetPlaylistTracks", CurYear)

\* fetchAllLikedTracks pages as the pager contract says
LikedPaging ==
    /\ PagedInOrder(LikedFetches)
    /\ (pc = "fetchLiked" /\ result = "none") =>
          /\ ~PagerDone(LikedFetches)
          /\ IDsOf(allTracks) = Flatten(PagesOf(LikedFetches))
    /\ (pc # "fetchLiked" /\ PagerDone(LikedFetches)) =>
          /\ IDsOf(allTracks) = Flatten(PagesOf(LikedFetches))
          /\ Len(LikedFetches) = 1 => (allTracks = <<>> /\ RunReturnedNil)
    /\ (pc \notin {"fetchLiked", "done"}) => PagerDone(LikedFetches)

\* fetchAllPlaylistTracks pages as the pager contract says; keep tells which
\* of the received identifiers are in the result
ItemsPaging(keep(_)) ==
    (yi >= 1 /\ pc # "locate") =>
        /\ PagedInOrder(ItemFetches)
        /\ (pc = "clearFetch" /\ result = "none") =>
              /\ ~PagerDone(ItemFetches)
              /\ tracksToRemove = SelectSeq(Flatten(PagesOf(ItemFetches)), keep)
        /\ ClearDone \/ pc = "remove" =>
              /\ PagerDone(ItemFetches)
              /\ tracksToRemove = SelectSeq(Flatten(PagesOf(ItemFetches)), keep)
              /\ Len(ItemFetches) = 1 => (tracksToRemove = <<>> /\ result # "err")

KeepAll(id) == TRUE

NonEmpty(id) == id # ""

\* C6 as stated (pager): both pagers ask for the offset past the items
\* received, stop exactly at the page of zero items, and return all items of
\* the pages received, in order.
C6_Original == LikedPaging /\ ItemsPaging(KeepAll)

\* C6 as amended: as stated, but the result of fetchAllPlaylistTracks is the
\* identifiers, in order, of the items received whose track identifier is
\* not empty.
C6_Pager == LikedPaging /\ ItemsPaging(NonEmpty)

\* a liked library fetched in more than two pages, and a playlist fetched
\* that has an item with an empty track identifier
C6_Witness ==
    /\ ClearDone
    /\ Len(LikedFetches) > 2
    /\ PagerDone(ItemFetches)
    /\ \E i \in 1..Len(ItemFetches) : EmptyID \in Range(ItemFetches[i].ids)

\* a playlist fetched in more than two pages
C6_WitnessItems ==
    /\ ClearDone /\ PagerDone(ItemFetches) /\ Len(ItemFetches) > 2

\* an empty first page of liked tracks; an empty first page of items
C6_WitnessEmptyLiked == PagerDone(LikedFetches) /\ Len(LikedFetches) = 1

C6_WitnessEmptyItems == ClearDone /\ PagerDone(ItemFetches) /\ Len(ItemFetches) = 1

\* the remote calls whose failure Run does not survive
FatalOps == {"GetPlaylistsForUser", "CreatePlaylistForUser", "GetPlaylistTracks",
             "RemoveTracksFromPlaylist", "AddTracksToPlaylist"}

LastCall == calls[Len(calls)]

\* C7 (fail-fast): a failed playlist listing, create, playlist-items fetch,
\* removal batch or addition batch is the last remote call of the run, and
\* Run has returned an error.
C7_FailFast ==
    \A k \in 1..Len(calls) :
        (calls[k].op \in FatalOps /\ ~calls[k].ok) =>
            /\ k = Len(calls)
            /\ pc = "done"
            /\ result = "err"

\* an addition batch failed with more batches of the year and a later year
\* still to do
C7_Witness ==
    /\ result = "err"
    /\ Len(calls) > 0
    /\ LastCall.op = "AddTracksToPlaylist" /\ ~LastCall.ok
    /\ bi + AddBatchSize < Len(tracksByYear[CurYear])
    /\ yi < Len(years)

\* a removal batch failed with more batches still to do
C7_WitnessRemove ==
    /\ result = "err"
    /\ Len(calls) > 0
    /\ LastCall.op = "RemoveTracksFromPlaylist" /\ ~LastCall.ok
    /\ bi + RemoveBatchSize < Len(tracksToRemove)

\* each kind of call has failed
C7_WitnessLocate == result = "err" /\ Len(calls) > 0 /\ LastCall.op = "GetPlaylistsForUser"

C7_WitnessCreate == result = "err" /\ Len(calls) > 0 /\ LastCall.op = "CreatePlaylistForUser"

C7_WitnessItems == result = "err" /\ Len(calls) > 0 /\ LastCall.op = "GetPlaylistTracks"

\* the playlists of the user named for year y exist as before the run
\* started and hold what they held then
Untouched(y) ==
    /\ OwnNamed(playlists, y) = OwnNamed(pre, y)
    /\ \A k \in OwnNamed(pre, y) : playlists[k].Items = pre[k].Items

\* Run returned an error while it was processing the yi-th year
FailedInYear == pc = "done" /\ result = "err" /\ yi >= 1

\* a create, removal or addition call of year y has succeeded
Mutated(y) ==
    \E k \in 1..Len(calls) :
        /\ calls[k].year = y /\ calls[k].ok
        /\ calls[k].op \in {"CreatePlaylistForUser", "RemoveTracksFromPlaylist",
                            "AddTracksToPlaylist"}

\* C8 as stated: when Run returned an error while processing a year, the
\* playlists of that year and of all later years are as they were before the
\* run started.
C8_Original ==
    FailedInYear => \A j \in yi..Len(years) : Untouched(years[j])

\* C8 as amended: when Run returned an error while processing a year, the
\* playlists of all later years are as they were before the run started, and
\* so is the playlist of that year when no create, removal or addition call
\* of the year had succeeded before the error.
C8_LaterYearsUntouched ==
    FailedInYear =>
        /\ \A j \in (yi + 1)..Len(years) : Untouched(years[j])
        /\ ~Mutated(CurYear) => Untouched(CurYear)

\* an error in the fill of a year whose playlist was cleared, with a later
\* year that has a playlist with items
C8_Witness ==
    /\ FailedInYear
    /\ LastCall.op = "AddTracksToPlaylist"
    /\ ~Untouched(CurYear)
    /\ \E j \in (yi + 1)..Len(years) :
          \E k \in OwnNamed(pre, years[j]) : Len(pre[k].Items) > 0

\* an error in the second year, after the first was completed
C8_WitnessSecond == FailedInYear /\ yi = 2 /\ ~Untouched(years[1])

\* the remote calls other than the image upload, in order
NonImageCalls == SelectSeq(calls, LAMBDA c : c.op # "SetPlaylistImage")

\* what the rest of Run reads: everything but the cover images, the image
\* calls and the count of image failures
NonImageState ==
    <<liked, Contents(playlists), result, allTracks, offset, tracksByYear, years,
      yi, existingPlaylist, playlistID, tracksToRemove, NonImageCalls, runs,
      fails, pre>>

\* an image step, whatever its outcome, leads to the upload or to the fill of
\* the same year and changes nothing else that Run reads
ImageStepIsolated ==
    pc \in {"image", "upload"} =>
        /\ pc' \in {"upload", "fill"}
        /\ pc = "upload" => pc' = "fill"
        /\ pc' = "fill" => bi' = 0
        /\ NonImageState' = NonImageState

\* C9 (image failures are isolated): a step of image generation or upload,
\* failed or not, never makes Run return and leaves the playlists' contents,
\* the non-image calls and the variables of Run as they were, so that the
\* fill of the year follows as it would have; and the call after which Run
\* returned an error is never an image upload.
C9_ImageIsolated ==
    /\ [][ImageStepIsolated]_vars
    /\ [](result = "err" => (Len(calls) > 0 /\ LastCall.op # "SetPlaylistImage"))

\* a run that returned nil although the upload of the first year's image
\* failed, after it filled that year and processed a later one
C9_Witness ==
    /\ RunReturnedNil
    /\ Len(years) >= 2
    /\ \E k \in 1..Len(calls) :
          /\ calls[k].op = "SetPlaylistImage" /\ ~calls[k].ok
          /\ calls[k].year = years[1]
          /\ \E n \in (k + 1)..Len(calls) :
                calls[n].op = "AddTracksToPlaylist" /\ calls[n].year = years[1]
          /\ NoEmptyItems(pre) =>
                playlists[IndexOfPlaylist(playlists, calls[k].pid)].Items
                    = Bucket(years[1])

\* a run that returned nil although an image could not be generated
C9_WitnessGenerate ==
    /\ RunReturnedNil
    /\ imgFails >= 1
    /\ \A k \in 1..Len(calls) : calls[k].ok
    /\ runs = 1

\* the calls of the run for year y, in order
YearCalls(y) == SelectSeq(calls, LAMBDA c : c.year = y)

\* the positions in cs of the calls of operation op
At(cs, op) == {k \in 1..Len(cs) : cs[k].op = op}

\* the Locator has returned, without an error, for the j-th year
PastLocate(j) ==
    \/ j < yi
    \/ j = yi /\ (pc \in {"image", "upload", "fill"} \/ RunReturnedNil)

\* C10 (locate-or-create): for every year, a create call is issued exactly
\* when no playlist of the user had the year's name; a playlist that had it
\* is the one fetched, cleared, given the image and filled, and stays the
\* only one of that name when it was; and for a year without one, the calls
\* after the create go to the created playlist and none fetches items or
\* removes.
C10_LocateOrCreate ==
    \A j \in 1..yi :
        LET y == years[j]
            cs == YearCalls(y)
            existed == OwnNamed(pre, y) # {}
            creates == At(cs, "CreatePlaylistForUser")
        IN  /\ Cardinality(creates) <= 1
            /\ creates # {} => ~existed
            /\ (PastLocate(j) /\ ~existed) => creates # {}
            /\ existed =>
                  /\ \A k \in 1..Len(cs) :
                        cs[k].op \in {"GetPlaylistTracks", "RemoveTracksFromPlaylist",
                                      "SetPlaylistImage", "AddTracksToPlaylist"}
                            => cs[k].pid = pre[SetMin(OwnNamed(pre, y))].ID
                  /\ OwnNamed(playlists, y) = OwnNamed(pre, y)
                  /\ Len(playlists) >= Len(pre)
            /\ ~existed =>
                  /\ At(cs, "GetPlaylistTracks") = {}
                  /\ At(cs, "RemoveTracksFromPlaylist") = {}
                  /\ Cardinality(OwnNamed(playlists, y)) <= 1
                  /\ \A k \in 1..Len(cs) :
                        cs[k].op \in {"SetPlaylistImage", "AddTracksToPlaylist"}
                            => \E c \in creates :
                                  /\ c < k /\ cs[c].ok
                                  /\ cs[c].pid = cs[k].pid
                                  /\ cs[c].name = PlaylistName(y)
                                  /\ OwnNamed(playlists, y) =
                                        {IndexOfPlaylist(playlists, cs[c].pid)}

\* a run that returned nil after it reused the playlist of one year and
\* created the playlist of another
C10_Witness ==
    /\ RunReturnedNil
    /\ \E i \in 1..Len(years), j \in 1..Len(years) :
          /\ OwnNamed(pre, years[i]) # {}
          /\ At(YearCalls(years[i]), "RemoveTracksFromPlaylist") # {}
          /\ OwnNamed(pre, years[j]) = {}
          /\ At(YearCalls(years[j]), "CreatePlaylistForUser") # {}
          /\ At(YearCalls(years[j]), "AddTracksToPlaylist") # {}

\* the largest library of the inputs
MaxLibrary == CHOOSE n \in LibrarySizes : \A m \in LibrarySizes : m <= n

\* the artists of the track with this identifier, looked up in the catalogue
ArtistsOfID(id) ==
    ArtistsOf(CHOOSE i \in 1..MaxLibrary : TrackID(i) = id)

\* the identifiers of a page that belong to a track with a blocked artist, in
\* page order
MarkedOf(ids) ==
    SelectSeq(ids, LAMBDA id : Range(ArtistsOfID(id)) \cap artists # {})

\* no identifier twice
NoRepeat(ids) == \A a, b \in 1..Len(ids) : ids[a] = ids[b] => a = b

\* C11 (artist filter marking): after each page that holds a track with a
\* blocked artist, the next remote call is one library removal whose
\* arguments are the identifiers of the marked tracks of that page, once
\* each, in page order; after a page without such a track the next call is
\* not a removal; and every removal follows the fetch of its page.
C11_Marking ==
    /\ \A k \in 1..Len(calls) :
          calls[k].op = "CurrentUsersTracks" /\ calls[k].ok =>
             IF MarkedOf(calls[k].ids) # <<>>
             THEN IF k = Len(calls)
                  THEN pc = "filterRemove" /\ tracksToRemove = MarkedOf(calls[k].ids)
                  ELSE /\ calls[k + 1].op = "RemoveTracksFromLibrary"
                       /\ calls[k + 1].ids = MarkedOf(calls[k].ids)
                       /\ NoRepeat(calls[k + 1].ids)
             ELSE /\ pc # "filterRemove" \/ k < Len(calls)
                  /\ k < Len(calls) =>
                        calls[k + 1].op # "RemoveTracksFromLibrary"
    /\ \A k \in 1..Len(calls) :
          calls[k].op = "RemoveTracksFromLibrary" =>
             /\ k > 1
             /\ calls[k - 1].op = "CurrentUsersTracks"
             /\ calls[k - 1].ok

\* the second page held several tracks with a blocked artist, one of them
\* with two blocked artists, and its removal call was made
C11_Witness ==
    /\ artists = {"Bad", "Worse"}
    /\ \E k \in 2..Len(calls) :
          /\ calls[k].op = "RemoveTracksFromLibrary"
          /\ calls[k].off = FilterLimit
          /\ Len(calls[k].ids) >= 2
          /\ \E a \in 1..Len(calls[k].ids) :
                Cardinality(Range(ArtistsOfID(calls[k].ids[a])) \cap artists) = 2

\* a page without a track with a blocked artist was followed by the next page
C11_WitnessNoCall ==
    \E k \in 1..(Len(calls) - 1) :
       /\ calls[k].op = "CurrentUsersTracks" /\ calls[k].ok
       /\ Len(calls[k].ids) > 0
       /\ calls[k + 1].op = "CurrentUsersTracks"

\* every library removal of the run succeeded
AllRemovalsOk ==
    \A k \in 1..Len(calls) :
       calls[k].op = "RemoveTracksFromLibrary" => calls[k].ok

\* the identifiers the successful library removals of the run were given
RemovedIDs ==
    Flatten(PagesOf(SelectSeq(calls, LAMBDA c :
                c.op = "RemoveTracksFromLibrary" /\ c.ok)))

\* the total the first page reported was the size of the library then
TotalExact == filterTotal = Len(liked) + Len(RemovedIDs)

\* the positions of the library that hold a track with a blocked artist
BlockedLeft ==
    {k \in 1..Len(liked) : Range(ArtistsOfID(liked[k].ID)) \cap artists # {}}

\* C12 (artist filter completeness): when Run returned nil, every removal
\* call succeeded and the remote reported the true total, no track with a
\* blocked artist is left in the liked library.
C12_Completeness ==
    RunReturnedNil /\ AllRemovalsOk /\ TotalExact => BlockedLeft = {}

\* a step from the removal call of a page: whatever the outcome of the call,
\* the offset advances by the page size, the total stays, Run stops with nil
\* exactly when the new offset has reached the total, and otherwise fetches
\* the next page
RemovalStepFailSoft ==
    pc = "filterRemove" =>
       /\ offset' = offset + FilterLimit
       /\ filterTotal' = filterTotal
       /\ result' # "err"
       /\ IF filterTotal # -1 /\ offset' >= filterTotal
          THEN pc' = "done" /\ result' = "nil"
          ELSE pc' = "filterFetch" /\ result' = "none"
       /\ Len(calls') = Len(calls) + 1
       /\ calls'[Len(calls')].op = "RemoveTracksFromLibrary"
       /\ ~calls'[Len(calls')].ok => liked' = liked

\* C13 (artist filter fail-soft): a failed library removal does not abort
\* the run: the run goes on with the same next offset and the same stop
\* condition as after a successful one, and Run returns an error only for a
\* failed page fetch, never for a failed removal.
C13_FailSoft ==
    /\ [][RemovalStepFailSoft]_vars
    /\ [](result = "err" =>
            /\ LastCall.op = "CurrentUsersTracks"
            /\ ~LastCall.ok)

\* the removal of a page failed, the next page was fetched at the next
\* offset, and Run returned nil
C13_Witness ==
    /\ RunReturnedNil
    /\ \E k \in 1..(Len(calls) - 1) :
          /\ calls[k].op = "RemoveTracksFromLibrary"
          /\ ~calls[k].ok
          /\ calls[k + 1].op = "CurrentUsersTracks"
          /\ calls[k + 1].ok
          /\ calls[k + 1].off = calls[k].off + FilterLimit
          /\ Len(calls[k + 1].ids) > 0

\* C14 (cancellation): once the context was cancelled during a run, Run of
\* either processor (the sorter, or the artist filter with a truly reported
\* total) aborts: it returns an error, not nil.
C14_Cancellation ==
    cancelled /\ pc = "done" /\ (filterTotal = -1 \/ TotalExact)
        => result = "err"

\* the identifiers of the liked tracks whose added-timestamp does not parse
Unparsed == {liked[k].ID : k \in {j \in 1..Len(liked) : ~ParsedAt(j).ok}}

\* C15 (classification error): a liked track whose added-timestamp does not
\* parse is in no bucket and in no addition call (each call is looked at when
\* it is the last one made); the buckets of the other tracks are what they
\* are without it; and Run returns an error only after a failed remote call,
\* so such a track makes no run fail.
C15_SkipUnparseable ==
    /\ JustGrouped =>
          /\ DOMAIN tracksByYear = ParsedYears
          /\ \A y \in ParsedYears : tracksByYear[y] = Bucket(y)
          /\ \A id \in Unparsed : Places(id) = {}
    /\ (Len(calls) > 0 /\ LastCall.op = "AddTracksToPlaylist") =>
          Range(LastCall.ids) \cap Unparsed = {}
    /\ result = "err" => Len(calls) > 0 /\ ~LastCall.ok
    /\ fails = 0 => result # "err"

\* a run over a library with parseable and unparseable timestamps returned
\* nil after it filled a playlist
C15_Witness ==
    /\ RunReturnedNil
    /\ Unparsed # {}
    /\ ParsedYears # {}
    /\ \E k \in 1..Len(calls) :
          calls[k].op = "AddTracksToPlaylist" /\ calls[k].ok
    /\ \E a, b \in 1..Len(liked) :
          a < b /\ ~ParsedAt(a).ok /\ ParsedAt(b).ok

\* the stage of the per-year sequence a remote call belongs to: Locate,
\* Clear's fetch, Clear's removal or Create, ImageApply, Fill
StageOf(op) ==
    CASE op = "GetPlaylistsForUser" -> 1
      [] op = "GetPlaylistTracks" -> 2
      [] op = "RemoveTracksFromPlaylist" -> 3
      [] op = "CreatePlaylistForUser" -> 3
      [] op = "SetPlaylistImage" -> 4
      [] op = "AddTracksToPlaylist" -> 5
      [] OTHER -> 0

\* C16 (order within a year): the calls of each year come in the order
\* Locate, then Create or Clear (never both), then ImageApply, then Fill;
\* within Clear the fetch ran to its empty page before the first removal
\* batch and before any image or addition call; and no addition batch of a
\* playlist comes before a removal batch of that playlist in the same run.
C16_YearOrder ==
    /\ \A j \in 1..Len(years) :
          LET cs == YearCalls(years[j])
              fetches == At(cs, "GetPlaylistTracks")
              later == {k \in 1..Len(cs) : StageOf(cs[k].op) >= 3}
          IN  /\ \A a, b \in 1..Len(cs) :
                    a < b => StageOf(cs[a].op) <= StageOf(cs[b].op)
              /\ \A a \in 1..Len(cs) : StageOf(cs[a].op) >= 1
              /\ At(cs, "CreatePlaylistForUser") = {}
                    \/ fetches \cup At(cs, "RemoveTracksFromPlaylist") = {}
              /\ Cardinality(At(cs, "CreatePlaylistForUser")) <= 1
              /\ Cardinality(At(cs, "SetPlaylistImage")) <= 1
              /\ (fetches # {} /\ later # {}) =>
                    LET last == CHOOSE k \in fetches : \A f \in fetches : f <= k
                    IN  cs[last].ok /\ cs[last].ids = <<>>
    /\ \A a, b \in 1..Len(calls) :
          /\ calls[a].op = "AddTracksToPlaylist"
          /\ calls[b].op = "RemoveTracksFromPlaylist"
          /\ calls[a].pid = calls[b].pid
          => b < a

\* a run returned nil after it cleared, in two removal batches, the playlist
\* of a year, set its image and filled it in two batches
C16_Witness ==
    /\ RunReturnedNil
    /\ \E j \in 1..Len(years) :
          LET cs == YearCalls(years[j])
          IN  /\ Cardinality(At(cs, "GetPlaylistTracks")) >= 2
              /\ Cardinality(At(cs, "RemoveTracksFromPlaylist")) >= 2
              /\ At(cs, "SetPlaylistImage") # {}
              /\ Cardinality(At(cs, "AddTracksToPlaylist")) >= 2

\* a run returned nil after it created the playlist of a year, set its
\* image and filled it
C16_WitnessCreate ==
    /\ RunReturnedNil
    /\ \E j \in 1..Len(years) :
          LET cs == YearCalls(years[j])
          IN  /\ At(cs, "CreatePlaylistForUser") # {}
              /\ At(cs, "SetPlaylistImage") # {}
              /\ At(cs, "AddTracksToPlaylist") # {}

\* the addition calls of year y all succeeded and carried, together, the
\* bucket of the year
FilledYear(y) ==
    /\ \A k \in 1..Len(calls) :
          (calls[k].op = "AddTracksToPlaylist" /\ calls[k].year = y)
             => calls[k].ok
    /\ Flatten(BatchesOf("AddTracksToPlaylist", y)) = tracksByYear[y]

\* a step makes at most one remote call, and it has returned when the step
\* ends
OneCallAtATime ==
    \/ calls' = calls
    \/ calls' = <<>>
    \/ Len(calls') = Len(calls) + 1 /\ SubSeq(calls', 1, Len(calls)) = calls

\* C17 (years in sequence): the years of a run are the distinct years of
\* the parseable liked tracks, each once, in strictly ascending order; the
\* calls of the run go through them in that order, and a call for a year
\* comes only after the last addition batch of every smaller year; and the
\* run makes its remote calls one at a time.
C17_YearsInSequence ==
    /\ [](/\ \A a, b \in 1..Len(years) : a < b => years[a] < years[b]
          /\ Len(years) > 0 => {years[a] : a \in 1..Len(years)} = ParsedYears
          /\ \A a, b \in 1..Len(calls) :
                a < b => calls[a].year <= calls[b].year
          /\ \A a \in 1..Len(calls) :
                calls[a].year # 0 => \E j \in 1..Len(years) :
                                        calls[a].year = years[j]
          /\ Len(calls) > 0 /\ LastCall.year # 0 =>
                \A j \in 1..Len(years) :
                   years[j] < LastCall.year => FilledYear(years[j])
          /\ RunReturnedNil /\ Len(years) > 0 =>
                \A j \in 1..Len(years) : FilledYear(years[j]))
    /\ [][OneCallAtATime]_vars

\* a run over three years returned nil
C17_Witness ==
    /\ RunReturnedNil
    /\ Len(years) >= 3
    /\ \A j \in 1..Len(years) :
          At(YearCalls(years[j]), "AddTracksToPlaylist") # {}

\* the remote playlists after a failure-free Run over the years ys, in
\* order, from the playlists pls: the first own playlist of the year's name
\* keeps its items with an empty identifier and gets the bucket of the year;
\* without one, a new playlist with the bucket is listed last
RECURSIVE AfterCleanRun(_, _)
AfterCleanRun(pls, ys) ==
    IF Len(ys) = 0 THEN pls
    ELSE LET y == Head(ys)
             own == OwnNamed(pls, y)
             next ==
                IF own = {}
                THEN Append(pls, Playlist("p" \o ToString(Len(pls) + 1),
                                          PlaylistName(y), Me, Bucket(y)))
                ELSE [pls EXCEPT ![SetMin(own)].Items =
                         SelectSeq(@, LAMBDA x : x = EmptyID) \o Bucket(y)]
         IN  AfterCleanRun(next, Tail(ys))

\* C18 as stated: when a run that follows a run that returned an error
\* returns nil, the remote playlists are those a single failure-free Run
\* leaves, every year's playlist holds exactly the year's bucket, and the
\* user has exactly one playlist of each generated year name.
C18_Original ==
    (RunReturnedNil /\ runs >= 2) =>
        /\ Contents(playlists) =
              Contents(AfterCleanRun(pre, SortInts(ParsedYears)))
        /\ \A y \in ParsedYears :
              /\ Cardinality(OwnNamed(playlists, y)) = 1
              /\ \A k \in OwnNamed(playlists, y) :
                    playlists[k].Items = Bucket(y)

\* C18 as amended (recovery by re-run): whenever Run returns nil, be it the first run
\* or a run that follows runs that returned an error at whatever stage, the
\* remote playlists (names, owners, items) are those a single failure-free
\* Run leaves from the playlists the first run started from; so, when no
\* item had an empty identifier, every year's playlist holds exactly the
\* year's bucket, and when each year had at most one playlist, it has
\* exactly one.
C18_Recovery ==
    RunReturnedNil =>
        /\ Contents(playlists) =
              Contents(AfterCleanRun(pre, SortInts(ParsedYears)))
        /\ \A y \in ParsedYears :
              /\ OwnNamed(playlists, y) # {}
              /\ NoEmptyItems(pre) =>
                    playlists[SetMin(OwnNamed(playlists, y))].Items = Bucket(y)
              /\ Cardinality(OwnNamed(pre, y)) <= 1 =>
                    Cardinality(OwnNamed(playlists, y)) = 1

\* a run returned nil after a run that returned an error from the second
\* addition batch of a year
C18_Witness ==
    /\ RunReturnedNil
    /\ runs = 2
    /\ ~calls[1].ok
    /\ calls[1].op = "AddTracksToPlaylist"
    /\ Len(calls[1].ids) < Len(Bucket(calls[1].year))
    /\ calls[1].ids[1] = Bucket(calls[1].year)[AddBatchSize + 1]

\* a run returned nil after a run that returned an error from the first
\* addition batch for a playlist it had created
C18_WitnessCreated ==
    /\ RunReturnedNil
    /\ runs = 2
    /\ ~calls[1].ok
    /\ calls[1].op = "AddTracksToPlaylist"
    /\ OwnNamed(pre, calls[1].year) = {}

\* a run returned nil after a run that returned an error from a removal
\* batch
C18_WitnessCleared ==
    /\ RunReturnedNil
    /\ runs = 2
    /\ ~calls[1].ok
    /\ calls[1].op = "RemoveTracksFromPlaylist"

\* a run returned nil after a run that returned an error from the second
\* removal batch of a playlist, the first batch removed
C18_WitnessSecondRemoval ==
    /\ RunReturnedNil
    /\ runs = 2
    /\ ~calls[1].ok
    /\ calls[1].op = "RemoveTracksFromPlaylist"
    /\ calls[1].ids[1] = OldItems(RemoveBatchSize + 1)[RemoveBatchSize + 1]
    /\ Cardinality(At(calls, "RemoveTracksFromPlaylist") \ {1}) >= 2

\* the identifiers the successful items fetches of the calls cs brought
FetchedIn(cs) ==
    UNION {Range(cs[k].ids) : k \in {f \in At(cs, "GetPlaylistTracks") : cs[f].ok}}

\* the items fetch of the calls cs has reached its empty page
FetchEnded(cs) ==
    \E k \in At(cs, "GetPlaylistTracks") : cs[k].ok /\ cs[k].ids = <<>>

\* C19 (Clear): every identifier passed to a playlist removal is non-empty
\* and was fetched from that playlist by an earlier items fetch of the same
\* year of the run; and when the fetch of a playlist ended without any
\* non-empty identifier, no removal call is made for it and Run does not
\* return an error for it: it goes on to the image and the fill.
C19_Clear ==
    /\ \A k \in 1..Len(calls) :
          calls[k].op = "RemoveTracksFromPlaylist" =>
             /\ calls[k].ids # <<>>
             /\ \A i \in 1..Len(calls[k].ids) :
                   /\ calls[k].ids[i] # EmptyID
                   /\ \E f \in 1..(k - 1) :
                         /\ calls[f].op = "GetPlaylistTracks"
                         /\ calls[f].ok
                         /\ calls[f].pid = calls[k].pid
                         /\ calls[f].year = calls[k].year
                         /\ calls[k].ids[i] \in Range(calls[f].ids)
    /\ \A j \in 1..Len(years) :
          LET cs == YearCalls(years[j])
          IN  (FetchEnded(cs) /\ FetchedIn(cs) \subseteq {EmptyID}) =>
                 /\ At(cs, "RemoveTracksFromPlaylist") = {}
                 /\ (LastCall.op = "GetPlaylistTracks"
                        /\ LastCall.year = years[j])
                       => pc \in {"image", "upload", "fill"}
                 /\ (result = "err" /\ LastCall.year = years[j])
                       => LastCall.op = "AddTracksToPlaylist"

\* a run returned nil after a removal for a playlist whose fetch had
\* brought an empty identifier among others
C19_Witness ==
    /\ RunReturnedNil
    /\ \E k \in 1..Len(calls) :
          /\ calls[k].op = "RemoveTracksFromPlaylist"
          /\ calls[k].ok
          /\ EmptyID \in FetchedIn(YearCalls(calls[k].year))

\* a run returned nil after it found only empty identifiers in a playlist,
\* made no removal call for it and filled it
C19_WitnessBlank ==
    /\ RunReturnedNil
    /\ \E j \in 1..Len(years) :
          LET cs == YearCalls(years[j])
          IN  /\ FetchEnded(cs)
              /\ FetchedIn(cs) = {EmptyID}
              /\ At(cs, "AddTracksToPlaylist") # {}

\* a run returned nil after it found no item in a playlist, made no
\* removal call for it and filled it
C19_WitnessEmpty ==
    /\ RunReturnedNil
    /\ \E j \in 1..Len(years) :
          LET cs == YearCalls(years[j])
          IN  /\ FetchEnded(cs)
              /\ FetchedIn(cs) = {}
              /\ At(cs, "AddTracksToPlaylist") # {}

\* C20 (artist filter paging): the scan of the artist filter ends only at
\* the end of the collection, whatever total the remote reported: when Run
\* has returned nil, the page at the next offset holds no item.
C20_PagerContract ==
    RunReturnedNil => Len(PageOf(liked, offset, FilterLimit)) = 0

\* the page fetches of the artist filter, failed ones included, in order
FilterFetches == SelectSeq(calls, LAMBDA c : c.op = "CurrentUsersTracks")

\* the library removals of the artist filter, in order
FilterRemovals == SelectSeq(calls, LAMBDA c : c.op = "RemoveTracksFromLibrary")

\* C21 (artist filter offset): the k-th page fetch of the run asks for
\* offset 50 * (k - 1) and gets at most 50 items; and while Run is fetching
\* or removing, its offset is 50 times the number of non-empty pages it is
\* done with, whatever those pages held, however many tracks were marked and
\* whether their removal succeeded.
C21_FixedOffset ==
    /\ \A k \in 1..Len(FilterFetches) :
          /\ FilterFetches[k].off = FilterLimit * (k - 1)
          /\ Len(FilterFetches[k].ids) <= FilterLimit
    /\ pc = "filterFetch" => offset = FilterLimit * Len(FilterFetches)
    /\ pc = "filterRemove" => offset = FilterLimit * (Len(FilterFetches) - 1)
    /\ \A k \in 1..Len(calls) :
          calls[k].op = "RemoveTracksFromLibrary" =>
             calls[k].off = calls[k - 1].off

\* three pages were fetched, the first a full one with a failed removal,
\* the second a full one with a successful removal of several tracks
C21_Witness ==
    /\ Len(FilterFetches) >= 3
    /\ Len(FilterRemovals) >= 2
    /\ ~FilterRemovals[1].ok
    /\ FilterRemovals[2].ok
    /\ Len(FilterRemovals[2].ids) >= 2
    /\ FilterFetches[3].ok
    /\ FilterFetches[3].off = 2 * FilterLimit

\* a page with fewer items than the page size and no marked track was
\* followed by the fetch of the next page
C21_WitnessShort ==
    \E k \in 1..(Len(calls) - 1) :
       /\ calls[k].op = "CurrentUsersTracks" /\ calls[k].ok
       /\ Len(calls[k].ids) \in 1..(FilterLimit - 1)
       /\ calls[k + 1].op = "CurrentUsersTracks"
       /\ calls[k + 1].off = calls[k].off + FilterLimit

\* C22 (termination): with every remote call returning and the remote
\* collections finite, Run of either processor returns, with nil or with an
\* error, and does so within MaxCalls remote calls: no paging loop and no
\* batch loop goes on forever.
C22_Termination ==
    <>(pc = "done" /\ result \in {"nil", "err"} /\ Len(calls) < MaxCalls)

\* a run of the sorter returned nil after its liked pager, its items pager
\* and its addition loop had each gone round more than once
C22_Witness ==
    /\ RunReturnedNil
    /\ Cardinality(At(calls, "CurrentUsersTracks")) >= 3
    /\ \E j \in 1..Len(years) :
          LET cs == YearCalls(years[j])
          IN  /\ Cardinality(At(cs, "GetPlaylistTracks")) >= 2
              /\ At(cs, "RemoveTracksFromPlaylist") # {}
              /\ Cardinality(At(cs, "AddTracksToPlaylist")) >= 2

\* a run of the sorter returned nil after its removal loop had gone round
\* more than once
C22_WitnessClear ==
    /\ RunReturnedNil
    /\ \E j \in 1..Len(years) :
          Cardinality(At(YearCalls(years[j]), "RemoveTracksFromPlaylist")) >= 2

\* a run of the artist filter returned nil after three pages and two
\* removals
C22_WitnessFilter ==
    /\ RunReturnedNil
    /\ Len(FilterFetches) >= 3
    /\ Len(FilterRemovals) >= 2

\* a run of the artist filter returned an error from a later page fetch
C22_WitnessError ==
    /\ pc = "done" /\ result = "err"
    /\ Len(FilterFetches) >= 2

\* the goroutines of GetClient that are at a send no receive will ever
\* meet: a handler at clientChan <- client, or a handler or the server
\* goroutine (0) at errChan <- err with the buffer full, after GetClient,
\* the only receiver, has returned
BlockedForever ==
    IF ~Returned THEN {}
    ELSE {h \in Callbacks : handlers[h] = "sendClient"}
         \cup (IF Len(errChan) < ErrChanCap THEN {}
               ELSE {h \in Callbacks : handlers[h] = "sendErr"}
                    \cup (IF server = "sendErr" THEN {0} ELSE {}))

\* C23 (auth callback listener): GetClient returns one outcome, a client,
\* the token or server error, or the context's error, and once it has
\* returned no callback handler and no server goroutine is blocked forever
\* on a send to clientChan or errChan.
C23_NoBlockedSender ==
    /\ Returned => result \in {"client", "err", "ctx"}
    /\ BlockedForever = {}

\* the select fires once and GetClient returns what it yielded: a client
\* handed over by a handler, an error taken from errChan, or the context's
\* error after a cancellation: what holds of the code
C23_OneOutcome ==
    /\ pc = "select" <=> result = "none"
    /\ Returned => result \in {"client", "err", "ctx"}
    /\ result = "ctx" => cancelled

====
